---------------------------- MODULE Spec2Model ----------------------------
(***************************************************************************)
(* Model of access-log-exporter's metric engine (internal/metric): the    *)
(* construction of one Metric from its specification (metric.New) and the *)
(* application of that Metric to decoded log lines (Metric.Parse) by       *)
(* several workers sharing the metric's vector and its label-map pool.     *)
(*                                                                         *)
(* A Go string is a sequence of one-character strings; a log line is a     *)
(* sequence of such strings.  A float64 is a record: a finite value is an  *)
(* exact fraction n/d in lowest terms, and NaN and the two infinities are  *)
(* kept as values of their own.                                            *)
(***************************************************************************)
EXTENDS Integers, Sequences, FiniteSets, TLC

\* Bounds of the model.
NumWorkers == 2
MaxCalls == 2

---------------------------------------------------------------------------
(* float64 *)

Abs(x) == IF x < 0 THEN 0 - x ELSE x

RECURSIVE Gcd(_, _)
Gcd(a, b) == IF b = 0 THEN a ELSE Gcd(b, a % b)

\* The fraction n/d (d # 0) in lowest terms with a positive denominator.
Fin(n, d) ==
    LET g == Gcd(Abs(n), Abs(d))
        s == IF d < 0 THEN 0 - 1 ELSE 1
    IN  [k |-> "fin", n |-> (s * n) \div g, d |-> (s * d) \div g]

NaN == [k |-> "nan", n |-> 0, d |-> 1]
PosInf == [k |-> "inf", n |-> 1, d |-> 1]
NegInf == [k |-> "inf", n |-> 0 - 1, d |-> 1]
Zero == Fin(0, 1)
One == Fin(1, 1)

Sign(x) == IF x.n > 0 THEN 1 ELSE IF x.n < 0 THEN 0 - 1 ELSE 0

\* IEEE-754 x < y: false as soon as one side is NaN.
FLt(x, y) ==
    IF x.k = "nan" \/ y.k = "nan" THEN FALSE
    ELSE IF x.k = "inf" THEN x.n < 0 /\ ~(y.k = "inf" /\ y.n < 0)
    ELSE IF y.k = "inf" THEN y.n > 0
    ELSE x.n * y.d < y.n * x.d

\* IEEE-754 x <= y.
FLe(x, y) == IF x.k = "nan" \/ y.k = "nan" THEN FALSE ELSE ~FLt(y, x)

FAdd(x, y) ==
    IF x.k = "nan" \/ y.k = "nan" THEN NaN
    ELSE IF x.k = "inf" /\ y.k = "inf" THEN (IF x.n = y.n THEN x ELSE NaN)
    ELSE IF x.k = "inf" THEN x
    ELSE IF y.k = "inf" THEN y
    ELSE Fin(x.n * y.d + y.n * x.d, x.d * y.d)

FMul(x, y) ==
    IF x.k = "nan" \/ y.k = "nan" THEN NaN
    ELSE IF x.k = "inf" \/ y.k = "inf"
         THEN (IF Sign(x) * Sign(y) = 0 THEN NaN
               ELSE IF Sign(x) * Sign(y) > 0 THEN PosInf ELSE NegInf)
    ELSE Fin(x.n * y.n, x.d * y.d)

\* x / y for a finite y # 0 (the only divisors the code divides by).
FDiv(x, y) ==
    IF x.k = "nan" THEN NaN
    ELSE IF x.k = "inf" THEN (IF Sign(x) * Sign(y) > 0 THEN PosInf ELSE NegInf)
    ELSE Fin(x.n * y.d, x.d * y.n)

---------------------------------------------------------------------------
(* strings *)

IsSpace(c) == c \in {" ", "\t", "\n", "\r"}

RECURSIVE TrimLeft(_)
TrimLeft(s) ==
    IF s # <<>> /\ IsSpace(Head(s)) THEN TrimLeft(Tail(s)) ELSE s

RECURSIVE TrimRight(_)
TrimRight(s) ==
    IF s # <<>> /\ IsSpace(s[Len(s)])
    THEN TrimRight(SubSeq(s, 1, Len(s) - 1))
    ELSE s

\* strings.TrimSpace
TrimSpace(s) == TrimRight(TrimLeft(s))

\* strings.IndexByte: the zero-based index of the first c in s, or -1.
RECURSIVE IndexByte(_, _)
IndexByte(s, c) ==
    IF s = <<>> THEN 0 - 1
    ELSE IF Head(s) = c THEN 0
    ELSE LET r == IndexByte(Tail(s), c)
         IN  IF r < 0 THEN r ELSE r + 1

\* strings.Split(s, sep) for a one-byte separator: never empty, Split("") = [""].
RECURSIVE Split(_, _)
Split(s, sep) ==
    LET i == IndexByte(s, sep)
    IN  IF i < 0 THEN <<s>>
        ELSE <<SubSeq(s, 1, i)>> \o Split(SubSeq(s, i + 2, Len(s)), sep)

\* Whether sub occurs in s at (one-based) position i.
OccursAt(s, sub, i) ==
    /\ i + Len(sub) - 1 <= Len(s)
    /\ SubSeq(s, i, i + Len(sub) - 1) = sub

\* strings.Contains
Contains(s, sub) == \E i \in 1..(Len(s) + 1) : OccursAt(s, sub, i)

\* strings.Replacer.Replace / Regexp.ReplaceAllString for a literal, non-empty
\* pattern: every non-overlapping occurrence, left to right, is replaced.
RECURSIVE ReplaceAll(_, _, _)
ReplaceAll(s, old, new) ==
    IF s = <<>> \/ old = <<>> THEN s
    ELSE IF OccursAt(s, old, 1)
         THEN new \o ReplaceAll(SubSeq(s, Len(old) + 1, Len(s)), old, new)
         ELSE <<Head(s)>> \o ReplaceAll(Tail(s), old, new)

Digits == {"0", "1", "2", "3", "4", "5", "6", "7", "8", "9"}

DigitVal(c) ==
    CASE c = "0" -> 0 [] c = "1" -> 1 [] c = "2" -> 2 [] c = "3" -> 3
      [] c = "4" -> 4 [] c = "5" -> 5 [] c = "6" -> 6 [] c = "7" -> 7
      [] c = "8" -> 8 [] c = "9" -> 9

RECURSIVE DigitsVal(_)
DigitsVal(s) ==
    IF s = <<>> THEN 0
    ELSE 10 * DigitsVal(SubSeq(s, 1, Len(s) - 1)) + DigitVal(s[Len(s)])

RECURSIVE Pow10(_)
Pow10(k) == IF k = 0 THEN 1 ELSE 10 * Pow10(k - 1)

AllDigits(s) == \A i \in 1..Len(s) : s[i] \in Digits

\* An unsigned decimal: digits with at most one ".", and at least one digit.
ParseUnsigned(s) ==
    LET dot == IndexByte(s, ".")
        int == IF dot < 0 THEN s ELSE SubSeq(s, 1, dot)
        frac == IF dot < 0 THEN <<>> ELSE SubSeq(s, dot + 2, Len(s))
    IN  IF AllDigits(int) /\ AllDigits(frac) /\ Len(int) + Len(frac) > 0
        THEN [ok |-> TRUE, v |-> Fin(DigitsVal(int \o frac), Pow10(Len(frac)))]
        ELSE [ok |-> FALSE, v |-> Zero]

\* strconv.ParseFloat(s, 64) on the texts the model's alphabet can spell: an
\* optional sign followed by a decimal or by "Inf", or the text "NaN".
ParseFloat(s) ==
    LET signed == s # <<>> /\ Head(s) \in {"+", "-"}
        neg == s # <<>> /\ Head(s) = "-"
        body == IF signed THEN Tail(s) ELSE s
        u == ParseUnsigned(body)
    IN  IF body = <<"I", "n", "f">>
        THEN [ok |-> TRUE, v |-> IF neg THEN NegInf ELSE PosInf]
        ELSE IF s = <<"N", "a", "N">> THEN [ok |-> TRUE, v |-> NaN]
        ELSE IF u.ok
             THEN [ok |-> TRUE, v |-> IF neg THEN FMul(Fin(0 - 1, 1), u.v) ELSE u.v]
             ELSE [ok |-> FALSE, v |-> Zero]

---------------------------------------------------------------------------
(* config.Metric and the texts of the model *)

\* prometheus.Labels: a map from label names to label values.
EmptyLabels == [x \in {} |-> <<>>]

PutLabel(labels, name, v) ==
    [x \in (DOMAIN labels) \cup {name} |-> IF x = name THEN v ELSE labels[x]]

\* Error values of Parse ("nil": no error) and the two ways it can panic.
ErrValueIndex == "line index out of range for value index"
ErrLabelIndex == "line index out of range for label"
ErrUpstreamIndex == "line index out of range for upstream address index"
ErrParseValue == "failed to parse value"
ErrNegativeCounter == "counter value cannot be negative"
ErrNotCounter == "valueIndex is nil but metric type is not counter"
ErrUnsupportedType == "unsupported metric type"
PanicIndex == "panic: index out of range"
PanicLabels == "panic: inconsistent label cardinality"

IndexErrors == {ErrValueIndex, ErrLabelIndex, ErrUpstreamIndex}
Errors == IndexErrors \cup {ErrParseValue, ErrNegativeCounter, ErrNotCounter,
                            ErrUnsupportedType}
Panics == {PanicIndex, PanicLabels}

\* line[i] of Go, zero-based: an index outside the slice panics.
Index(line, i) ==
    IF i >= 0 /\ i < Len(line)
    THEN [panic |-> FALSE, v |-> line[i + 1]]
    ELSE [panic |-> TRUE, v |-> <<>>]

\* uaparser's family of a User-Agent text: "curl" for a curl client, and
\* "Other" for every text no rule of the bundled table matches.
UserAgentFamily(s) ==
    IF Contains(s, <<"c", "u", "r", "l">>)
    THEN <<"c", "u", "r", "l">>
    ELSE <<"O", "t", "h", "e", "r">>

\* Metric.valueReplacements: the first entry that matches rewrites the text.
\* A nil pointer is the empty sequence, a set one a sequence of length one;
\* patterns are literal texts (a regular expression without metacharacters).
\* A faulty variant of valueReplacements: every matching entry is applied, each
\* to the result of the one before.
RECURSIVE valueReplacementsChained(_, _)
valueReplacementsChained(replacements, labelValue) ==
    IF Len(replacements) = 0 THEN labelValue
    ELSE LET r == Head(replacements)
             p == IF r.String # <<>> THEN r.String[1] ELSE r.Regexp[1]
         IN  valueReplacementsChained(Tail(replacements),
                 IF Contains(labelValue, p) THEN ReplaceAll(labelValue, p, r.Replacement)
                 ELSE labelValue)

RECURSIVE valueReplacements(_, _)
valueReplacements(replacements, labelValue) ==
    IF Len(replacements) = 0 THEN labelValue
    ELSE LET r == Head(replacements)
         IN  IF r.StringReplacer # <<>> /\ Contains(labelValue, r.String[1])
             THEN ReplaceAll(labelValue, r.String[1], r.Replacement)
             ELSE IF r.Regexp # <<>> /\ Contains(labelValue, r.Regexp[1])
             THEN ReplaceAll(labelValue, r.Regexp[1], r.Replacement)
             ELSE IF Len(replacements) = 1 THEN labelValue
             ELSE valueReplacements(Tail(replacements), labelValue)

---------------------------------------------------------------------------
(* metric.New *)

LabelCount(cfg) ==
    Len(cfg.Labels) + (IF cfg.Upstream.Enabled /\ cfg.Upstream.Label THEN 1 ELSE 0)

\* The label keys the vector is created with.
LabelKeys(cfg) ==
    [i \in 1..LabelCount(cfg) |->
        IF i <= Len(cfg.Labels) THEN cfg.Labels[i].Name ELSE "upstream"]

NoMetric(state) == [state |-> state, kind |-> "", labelKeys |-> <<>>]

\* A faulty variant of New: the names of the labels are not tested.
NewLabelNamesUnchecked(cfg) ==
    IF cfg.Name = "" THEN NoMetric("error")
    ELSE IF cfg.ValueIndex = <<>> /\ cfg.Type # "counter" THEN NoMetric("error")
    ELSE IF cfg.Type = "counter"
         THEN [state |-> "ok", kind |-> "CounterVec", labelKeys |-> LabelKeys(cfg)]
    ELSE IF cfg.Type = "gauge"
         THEN [state |-> "ok", kind |-> "GaugeVec", labelKeys |-> LabelKeys(cfg)]
    ELSE IF cfg.Type = "histogram"
         THEN [state |-> "ok", kind |-> "HistogramVec", labelKeys |-> LabelKeys(cfg)]
    ELSE NoMetric("error")

\* metric.New: the Metric (the dynamic type of its vector and the vector's label
\* keys), or an error.
New(cfg) ==
    IF cfg.Name = "" THEN NoMetric("error")
    ELSE IF cfg.ValueIndex = <<>> /\ cfg.Type # "counter" THEN NoMetric("error")
    ELSE IF \E i \in 1..Len(cfg.Labels) : cfg.Labels[i].Name = "" THEN NoMetric("error")
    ELSE IF cfg.Type = "counter"
         THEN [state |-> "ok", kind |-> "CounterVec", labelKeys |-> LabelKeys(cfg)]
    ELSE IF cfg.Type = "gauge"
         THEN [state |-> "ok", kind |-> "GaugeVec", labelKeys |-> LabelKeys(cfg)]
    ELSE IF cfg.Type = "histogram"
         THEN [state |-> "ok", kind |-> "HistogramVec", labelKeys |-> LabelKeys(cfg)]
    ELSE NoMetric("error")

---------------------------------------------------------------------------
(* Metric.Parse, function by function.  Each operator returns the Go      *)
(* function's results; "upd" is the sequence of the calls it made on the   *)
(* vector (labels, value, and the position of the value element).          *)

Result(err, upd) == [err |-> err, upd |-> upd]

\* A faulty variant of validateAndExtractValue: the empty first field is not
\* tested.
validateAndExtractValueFirstFieldUnchecked(cfg, line) ==
    IF Len(line) = 0
    THEN [value |-> <<>>, skip |-> TRUE, err |-> "nil"]
    ELSE IF cfg.ValueIndex = <<>>
    THEN [value |-> <<>>, skip |-> FALSE, err |-> "nil"]
    ELSE IF cfg.ValueIndex[1] >= Len(line)
    THEN [value |-> <<>>, skip |-> FALSE, err |-> ErrValueIndex]
    ELSE LET value == Index(line, cfg.ValueIndex[1])
         IN  IF value.v = <<>> \/ value.v = <<"-">>
             THEN [value |-> <<>>, skip |-> TRUE, err |-> "nil"]
             ELSE [value |-> valueReplacements(cfg.Replacements, value.v),
                   skip |-> FALSE, err |-> "nil"]

\* A faulty variant of validateAndExtractValue: only the empty value is a
\* sentinel, "-" is not.
validateAndExtractValueDashNotSentinel(cfg, line) ==
    IF Len(line) = 0 \/ line[1] = <<>>
    THEN [value |-> <<>>, skip |-> TRUE, err |-> "nil"]
    ELSE IF cfg.ValueIndex = <<>>
    THEN [value |-> <<>>, skip |-> FALSE, err |-> "nil"]
    ELSE IF cfg.ValueIndex[1] >= Len(line)
    THEN [value |-> <<>>, skip |-> FALSE, err |-> ErrValueIndex]
    ELSE LET value == Index(line, cfg.ValueIndex[1])
         IN  IF value.v = <<>>
             THEN [value |-> <<>>, skip |-> TRUE, err |-> "nil"]
             ELSE [value |-> valueReplacements(cfg.Replacements, value.v),
                   skip |-> FALSE, err |-> "nil"]

validateAndExtractValue(cfg, line) ==
    IF Len(line) = 0 \/ line[1] = <<>>
    THEN [value |-> <<>>, skip |-> TRUE, err |-> "nil"]
    ELSE IF cfg.ValueIndex = <<>>
    THEN [value |-> <<>>, skip |-> FALSE, err |-> "nil"]
    ELSE IF cfg.ValueIndex[1] >= Len(line)
    THEN [value |-> <<>>, skip |-> FALSE, err |-> ErrValueIndex]
    ELSE LET value == Index(line, cfg.ValueIndex[1])
         IN  IF value.panic
             THEN [value |-> <<>>, skip |-> FALSE, err |-> PanicIndex]
             ELSE IF value.v = <<>> \/ value.v = <<"-">>
             THEN [value |-> <<>>, skip |-> TRUE, err |-> "nil"]
             ELSE [value |-> valueReplacements(cfg.Replacements, value.v),
                   skip |-> FALSE, err |-> "nil"]

\* A faulty variant of processLabelsFrom: the label's line index is not checked
\* against the line.
RECURSIVE processLabelsFromUnchecked(_, _, _, _)
processLabelsFromUnchecked(cfg, line, labels, i) ==
    IF i > Len(cfg.Labels) THEN [err |-> "nil", labels |-> labels]
    ELSE LET label == cfg.Labels[i]
             field == Index(line, label.LineIndex)
             family == IF label.UserAgent THEN UserAgentFamily(field.v) ELSE field.v
             labelValue == valueReplacements(label.Replacements, family)
         IN  IF field.panic
             THEN [err |-> PanicIndex, labels |-> labels]
             ELSE processLabelsFromUnchecked(cfg, line,
                        PutLabel(labels, label.Name, labelValue), i + 1)

\* processLabels from label number i on: the map as the loop leaves it, and the
\* error that ended the loop.
RECURSIVE processLabelsFrom(_, _, _, _)
processLabelsFrom(cfg, line, labels, i) ==
    IF i > Len(cfg.Labels) THEN [err |-> "nil", labels |-> labels]
    ELSE LET label == cfg.Labels[i]
             field == Index(line, label.LineIndex)
             family == IF label.UserAgent THEN UserAgentFamily(field.v) ELSE field.v
             labelValue == valueReplacements(label.Replacements, family)
         IN  IF label.LineIndex >= Len(line)
             THEN [err |-> ErrLabelIndex, labels |-> labels]
             ELSE IF field.panic
             THEN [err |-> PanicIndex, labels |-> labels]
             ELSE processLabelsFrom(cfg, line,
                                    PutLabel(labels, label.Name, labelValue), i + 1)

processLabels(cfg, line, labels) == processLabelsFrom(cfg, line, labels, 1)

\* vec.With(labels) panics unless the map holds exactly the vector's label keys.
WithPanics(m, labels) ==
    \/ Cardinality(DOMAIN labels) # Len(m.labelKeys)
    \/ \E i \in 1..Len(m.labelKeys) : m.labelKeys[i] \notin DOMAIN labels

\* The arithmetic steps applyMathTransformations takes, in the order it takes
\* them: value /= Div when Div != 0, then value *= Mul when Mul != 0.
mathSteps(cfg) ==
    IF ~cfg.Math.Enabled THEN <<>>
    ELSE (IF cfg.Math.Div # Zero THEN <<[op |-> "div", by |-> cfg.Math.Div]>> ELSE <<>>)
         \o (IF cfg.Math.Mul # Zero THEN <<[op |-> "mul", by |-> cfg.Math.Mul]>> ELSE <<>>)

\* One step on a float64; a division by zero gives what IEEE-754 gives.
mathStep(value, step) ==
    IF step.op = "mul" THEN FMul(value, step.by)
    ELSE IF step.by # Zero THEN FDiv(value, step.by)
    ELSE IF value.k = "nan" \/ Sign(value) = 0 THEN NaN
    ELSE IF Sign(value) > 0 THEN PosInf ELSE NegInf

RECURSIVE applyMathSteps(_, _)
applyMathSteps(steps, value) ==
    IF steps = <<>> THEN value
    ELSE applyMathSteps(Tail(steps), mathStep(value, Head(steps)))

\* A faulty variant of applyMathTransformations: Div and Mul are applied without
\* testing them against 0.
applyMathTransformationsZeroUnchecked(cfg, value) ==
    IF ~cfg.Math.Enabled THEN value
    ELSE applyMathSteps(<<[op |-> "div", by |-> cfg.Math.Div],
                          [op |-> "mul", by |-> cfg.Math.Mul]>>, value)

applyMathTransformations(cfg, value) == applyMathSteps(mathSteps(cfg), value)

\* A faulty variant of setMetricValue: a counter adds whatever it is given.
setMetricValueSignUnchecked(m, value, labels, pos) ==
    IF m.kind \in {"CounterVec", "GaugeVec", "HistogramVec"}
    THEN IF WithPanics(m, labels) THEN Result(PanicLabels, <<>>)
         ELSE Result("nil", <<[labels |-> labels, v |-> value, i |-> pos]>>)
    ELSE Result(ErrUnsupportedType, <<>>)

setMetricValue(m, value, labels, pos) ==
    IF m.kind = "CounterVec"
    THEN IF FLt(value, Zero) THEN Result(ErrNegativeCounter, <<>>)
         ELSE IF WithPanics(m, labels) THEN Result(PanicLabels, <<>>)
         ELSE Result("nil", <<[labels |-> labels, v |-> value, i |-> pos]>>)
    ELSE IF m.kind \in {"GaugeVec", "HistogramVec"}
    THEN IF WithPanics(m, labels) THEN Result(PanicLabels, <<>>)
         ELSE Result("nil", <<[labels |-> labels, v |-> value, i |-> pos]>>)
    ELSE Result(ErrUnsupportedType, <<>>)

setMetric(cfg, m, value, labels, pos) ==
    LET trimmed == TrimSpace(value)
        valueFloat == ParseFloat(trimmed)
    IN  IF trimmed = <<>> THEN Result("nil", <<>>)
        ELSE IF ~valueFloat.ok THEN Result(ErrParseValue, <<>>)
        ELSE setMetricValue(m, applyMathTransformations(cfg, valueFloat.v), labels, pos)

handleCounterIncrement(m, labels) ==
    IF m.kind # "CounterVec" THEN Result(ErrNotCounter, <<>>)
    ELSE IF WithPanics(m, labels) THEN Result(PanicLabels, <<>>)
    ELSE Result("nil", <<[labels |-> labels, v |-> One, i |-> 0]>>)

parseUpstreams(cfg, line) ==
    IF Len(cfg.Upstream.Excludes) = 0 /\ ~cfg.Upstream.Label
    THEN [err |-> "nil", upstreams |-> <<>>]
    ELSE IF cfg.Upstream.AddrLineIndex >= Len(line)
    THEN [err |-> ErrUpstreamIndex, upstreams |-> <<>>]
    ELSE LET field == Index(line, cfg.Upstream.AddrLineIndex)
             parts == Split(field.v, ",")
         IN  IF field.panic THEN [err |-> PanicIndex, upstreams |-> <<>>]
             ELSE [err |-> "nil",
                   upstreams |-> [i \in 1..Len(parts) |-> TrimSpace(parts[i])]]

\* A faulty variant of extractNextValue: the comma stays at the head of the
\* remaining text.
extractNextValueKeepsComma(value) ==
    LET comma == IndexByte(value, ",")
    IN  IF comma >= 0
        THEN [element |-> TrimSpace(SubSeq(value, 1, comma)),
              remaining |-> SubSeq(value, comma + 1, Len(value))]
        ELSE [element |-> TrimSpace(value), remaining |-> <<>>]

extractNextValue(value) ==
    LET comma == IndexByte(value, ",")
    IN  IF comma >= 0
        THEN [element |-> TrimSpace(SubSeq(value, 1, comma)),
              remaining |-> SubSeq(value, comma + 2, Len(value))]
        ELSE [element |-> TrimSpace(value), remaining |-> <<>>]

\* A faulty variant of getUpstreamForValue: a position past the addresses wraps
\* to the first address.
getUpstreamForValueWrapsToFirst(upstreams, valueIndex) ==
    LET upstreamIndex == IF valueIndex >= Len(upstreams) THEN 0 ELSE valueIndex
    IN  Index(upstreams, upstreamIndex)

getUpstreamForValue(upstreams, valueIndex) ==
    LET upstreamIndex == IF valueIndex >= Len(upstreams) THEN Len(upstreams) - 1
                         ELSE valueIndex
    IN  Index(upstreams, upstreamIndex)

\* A faulty variant of isUpstreamExcluded: the exclusion list is ignored.
isUpstreamExcludedNever(cfg, upstream) == FALSE

isUpstreamExcluded(cfg, upstream) ==
    /\ Len(cfg.Upstream.Excludes) # 0
    /\ \E i \in 1..Len(cfg.Upstream.Excludes) : cfg.Upstream.Excludes[i] = upstream

\* processValueWithUpstream: its result and the label map as it leaves it.
processValueWithUpstream(cfg, m, valueElement, upstreams, valueIndex, labels) ==
    IF Len(upstreams) = 0
    THEN [res |-> setMetric(cfg, m, valueElement, labels, valueIndex), labels |-> labels]
    ELSE LET upstream == getUpstreamForValue(upstreams, valueIndex)
             labelled == IF cfg.Upstream.Label
                         THEN PutLabel(labels, "upstream", upstream.v)
                         ELSE labels
         IN  IF upstream.panic
             THEN [res |-> Result(PanicIndex, <<>>), labels |-> labels]
             ELSE IF isUpstreamExcluded(cfg, upstream.v)
             THEN [res |-> Result("nil", <<>>), labels |-> labels]
             ELSE [res |-> setMetric(cfg, m, valueElement, labelled, valueIndex),
                   labels |-> labelled]

\* A faulty variant of handleMetricValue: upstream.enabled is not tested.
handleMetricValueEnabledUnchecked(cfg, m, line, value, labels) ==
    IF cfg.ValueIndex = <<>>
    THEN [walk |-> FALSE, res |-> handleCounterIncrement(m, labels), upstreams |-> <<>>]
    ELSE IF value = <<>>
    THEN [walk |-> FALSE, res |-> Result("nil", <<>>), upstreams |-> <<>>]
    ELSE LET pu == parseUpstreams(cfg, line)
         IN  IF pu.err # "nil"
             THEN [walk |-> FALSE, res |-> Result(pu.err, <<>>), upstreams |-> <<>>]
             ELSE [walk |-> TRUE, res |-> Result("nil", <<>>), upstreams |-> pu.upstreams]

\* handleMetricValue up to the comma walk of setMetricWithUpstream: "walk" says
\* that the call goes on in processCommaDelimitedValues with these upstreams.
handleMetricValue(cfg, m, line, value, labels) ==
    IF cfg.ValueIndex = <<>>
    THEN [walk |-> FALSE, res |-> handleCounterIncrement(m, labels), upstreams |-> <<>>]
    ELSE IF value = <<>>
    THEN [walk |-> FALSE, res |-> Result("nil", <<>>), upstreams |-> <<>>]
    ELSE IF cfg.Upstream.Enabled
    THEN LET pu == parseUpstreams(cfg, line)
         IN  IF pu.err # "nil"
             THEN [walk |-> FALSE, res |-> Result(pu.err, <<>>), upstreams |-> <<>>]
             ELSE [walk |-> TRUE, res |-> Result("nil", <<>>), upstreams |-> pu.upstreams]
    ELSE [walk |-> FALSE, res |-> setMetric(cfg, m, value, labels, 0), upstreams |-> <<>>]

\* Metric.Parse from its entry to its return or to the start of the comma walk.
\* "pooled" says whether a label map was taken from the pool, "labels" is that
\* map as the call has filled it.
ParseEntry(cfg, m, line, labels0) ==
    LET ve == validateAndExtractValue(cfg, line)
        pl == processLabels(cfg, line, labels0)
        hv == handleMetricValue(cfg, m, line, ve.value, pl.labels)
    IN  IF ve.err # "nil" \/ ve.skip
        THEN [pooled |-> FALSE, walk |-> FALSE, res |-> Result(ve.err, <<>>),
              labels |-> labels0, value |-> <<>>, upstreams |-> <<>>]
        ELSE IF pl.err # "nil"
        THEN [pooled |-> TRUE, walk |-> FALSE, res |-> Result(pl.err, <<>>),
              labels |-> pl.labels, value |-> <<>>, upstreams |-> <<>>]
        ELSE [pooled |-> TRUE, walk |-> hv.walk, res |-> hv.res,
              labels |-> pl.labels, value |-> ve.value, upstreams |-> hv.upstreams]

\* One iteration of the loop of processCommaDelimitedValues.
WalkIteration(cfg, m, value, upstreams, valueIndex, labels) ==
    LET nx == extractNextValue(value)
        pv == IF nx.element # <<"-">>
              THEN processValueWithUpstream(cfg, m, nx.element, upstreams,
                                            valueIndex, labels)
              ELSE [res |-> Result("nil", <<>>), labels |-> labels]
    IN  [res |-> pv.res, labels |-> pv.labels, remaining |-> nx.remaining,
         break |-> pv.res.err # "nil" \/ nx.remaining = <<>>]

\* A faulty variant of returnLabelsToPool: the map goes back as it is.
returnLabelsToPoolUncleared(labels) == labels

\* returnLabelsToPool: every key is deleted before the map goes back.
returnLabelsToPool(labels) == [x \in {} |-> <<>>]

---------------------------------------------------------------------------
(* the vector: label tuple -> sample *)

\* prometheus.DefBuckets
DefBuckets ==
    <<Fin(5, 1000), Fin(1, 100), Fin(25, 1000), Fin(5, 100), Fin(1, 10),
      Fin(25, 100), Fin(5, 10), Fin(1, 1), Fin(25, 10), Fin(5, 1), Fin(10, 1)>>

Buckets(cfg) == IF Len(cfg.Buckets) = 0 THEN DefBuckets ELSE cfg.Buckets

\* sort.SearchFloat64s: the first bucket whose upper bound is >= v, or one past
\* the last (the +Inf bucket).
BucketIndex(bounds, v) ==
    IF \E i \in 1..Len(bounds) : FLe(v, bounds[i])
    THEN CHOOSE i \in 1..Len(bounds) :
            /\ FLe(v, bounds[i])
            /\ \A j \in 1..(i - 1) : ~FLe(v, bounds[j])
    ELSE Len(bounds) + 1

NewHistogram(bounds) ==
    [count |-> 0, sum |-> Zero, counts |-> [i \in 1..Len(bounds) |-> 0]]

\* A faulty variant of UpdateSample: an observation above the last bound (or
\* NaN) is not counted.
UpdateSampleFiniteBucketsOnly(cfg, m, vec, u) ==
    LET present == u.labels \in DOMAIN vec
        new ==
            IF m.kind = "CounterVec"
            THEN FAdd(IF present THEN vec[u.labels] ELSE Zero, u.v)
            ELSE IF m.kind = "GaugeVec" THEN u.v
            ELSE LET h == IF present THEN vec[u.labels]
                          ELSE NewHistogram(Buckets(cfg))
                     b == BucketIndex(Buckets(cfg), u.v)
                 IN  [count |-> IF b <= Len(h.counts) THEN h.count + 1 ELSE h.count,
                      sum |-> FAdd(h.sum, u.v),
                      counts |-> [i \in 1..Len(h.counts) |->
                                    IF i = b THEN h.counts[i] + 1 ELSE h.counts[i]]]
    IN  [t \in (DOMAIN vec) \cup {u.labels} |-> IF t = u.labels THEN new ELSE vec[t]]

\* Counter.Add, Gauge.Set and Histogram.Observe on the sample of one label tuple
\* (created on its first use).
UpdateSample(cfg, m, vec, u) ==
    LET present == u.labels \in DOMAIN vec
        new ==
            IF m.kind = "CounterVec"
            THEN FAdd(IF present THEN vec[u.labels] ELSE Zero, u.v)
            ELSE IF m.kind = "GaugeVec" THEN u.v
            ELSE LET h == IF present THEN vec[u.labels]
                          ELSE NewHistogram(Buckets(cfg))
                     b == BucketIndex(Buckets(cfg), u.v)
                 IN  [count |-> h.count + 1,
                      sum |-> FAdd(h.sum, u.v),
                      counts |-> [i \in 1..Len(h.counts) |->
                                    IF i = b THEN h.counts[i] + 1 ELSE h.counts[i]]]
    IN  [t \in (DOMAIN vec) \cup {u.labels} |-> IF t = u.labels THEN new ELSE vec[t]]

RECURSIVE ApplyUpdates(_, _, _, _)
ApplyUpdates(cfg, m, vec, upd) ==
    IF upd = <<>> THEN vec
    ELSE ApplyUpdates(cfg, m, UpdateSample(cfg, m, vec, Head(upd)), Tail(upd))

---------------------------------------------------------------------------
(* the metric specifications and the log lines the model draws from *)

NoUpstream == [Enabled |-> FALSE, Label |-> FALSE, AddrLineIndex |-> 2, Excludes |-> <<>>]
NoMath == [Enabled |-> FALSE, Mul |-> Zero, Div |-> Zero]

Label(name, lineIndex) ==
    [Name |-> name, LineIndex |-> lineIndex, UserAgent |-> FALSE, Replacements |-> <<>>]

\* A replacement as UnmarshalYAML leaves it: StringReplacer is set iff String is.
StringReplacement(old, new) ==
    [String |-> <<old>>, Regexp |-> <<>>, StringReplacer |-> <<old>>, Replacement |-> new]

RegexpReplacement(pattern, new) ==
    [String |-> <<>>, Regexp |-> <<pattern>>, StringReplacer |-> <<>>, Replacement |-> new]

\* A counter over the label host (field 0) that adds the value of field 1.
Base ==
    [Name |-> "m", Type |-> "counter", ValueIndex |-> <<1>>,
     Labels |-> <<Label("host", 0)>>, Replacements |-> <<>>,
     Upstream |-> NoUpstream, Math |-> NoMath, Buckets |-> <<One, Fin(2, 1)>>]

Up(label, excludes) ==
    [Enabled |-> TRUE, Label |-> label, AddrLineIndex |-> 2, Excludes |-> excludes]

Configs ==
    {Base,
     [Base EXCEPT !.ValueIndex = <<>>],
     [Base EXCEPT !.ValueIndex = <<>>, !.Labels = <<>>,
                  !.Math = [Enabled |-> TRUE, Mul |-> Fin(3, 1), Div |-> Fin(2, 1)]],
     [Base EXCEPT !.Type = "gauge"],
     [Base EXCEPT !.Type = "histogram"],
     [Base EXCEPT !.Type = "histogram", !.Buckets = <<>>, !.Upstream = Up(TRUE, <<>>)],
     [Base EXCEPT !.Upstream = Up(FALSE, <<>>)],
     [Base EXCEPT !.Upstream = Up(TRUE, <<>>)],
     [Base EXCEPT !.Upstream = Up(FALSE, <<<<"v">>>>)],
     [Base EXCEPT !.Upstream = Up(TRUE, <<<<"v">>>>),
                  !.Math = [Enabled |-> TRUE, Mul |-> Zero, Div |-> Fin(2, 1)]],
     [Base EXCEPT !.Type = "gauge", !.Upstream = Up(TRUE, <<<<"w">>, <<"u">>>>)],
     [Base EXCEPT !.Upstream = [Enabled |-> FALSE, Label |-> TRUE,
                                AddrLineIndex |-> 2, Excludes |-> <<<<"u">>>>]],
     [Base EXCEPT !.ValueIndex = <<>>, !.Upstream = Up(TRUE, <<>>)],
     [Base EXCEPT !.Math = [Enabled |-> TRUE, Mul |-> Zero, Div |-> Zero]],
     [Base EXCEPT !.Math = [Enabled |-> TRUE, Mul |-> Fin(0 - 1, 1), Div |-> Zero]],
     [Base EXCEPT !.Math = [Enabled |-> FALSE, Mul |-> Fin(3, 1), Div |-> Fin(2, 1)]],
     [Base EXCEPT !.Type = "gauge",
                  !.Math = [Enabled |-> TRUE, Mul |-> Fin(3, 1), Div |-> Fin(2, 1)]],
     [Base EXCEPT !.Labels = <<Label("host", 0), Label("addr", 2)>>],
     [Base EXCEPT !.ValueIndex = <<3>>, !.Labels = <<Label("addr", 2)>>],
     [Base EXCEPT !.Replacements = <<StringReplacement(<<"x">>, <<"7">>),
                                     RegexpReplacement(<<"7">>, <<"9">>)>>,
                  !.Labels = <<[Label("host", 0) EXCEPT
                                  !.Replacements = <<StringReplacement(<<"b">>, <<"y">>),
                                                     RegexpReplacement(<<"a">>, <<"z">>)>>]>>,
                  !.Upstream = Up(FALSE, <<>>)],
     [Base EXCEPT !.Labels = <<[Label("agent", 0) EXCEPT !.UserAgent = TRUE]>>],
     [Base EXCEPT !.Name = ""],
     [Base EXCEPT !.Type = "summary"],
     [Base EXCEPT !.Type = "gauge", !.ValueIndex = <<>>],
     [Base EXCEPT !.Labels = <<Label("host", 0), Label("", 1)>>]}

\* Log lines: field 0 is the host, field 1 the value, field 2 the upstream
\* addresses.
Lines ==
    {<<>>,
     <<<<>>>>,
     <<<<>>, <<"1">>, <<"u">>>>,
     <<<<"a">>>>,
     <<<<"a">>, <<"1">>>>,
     <<<<"a">>, <<"1">>, <<"u">>>>,
     <<<<"b">>, <<"-">>, <<"u">>>>,
     <<<<"a">>, <<>>, <<"u">>>>,
     <<<<"a">>, <<"1", ",", "0", ".", "5">>, <<"u", ",", "v">>>>,
     <<<<"a">>, <<"1", ",", "x">>, <<"u", ",", "v">>>>,
     <<<<"a">>, <<"2", ",", " ", "-", ",", "1">>, <<"u", ",", " ", "v">>>>,
     <<<<"b">>, <<"3", ",", ",", " ">>, <<"v", ",", "u", ",", "w">>>>,
     <<<<"a">>, <<"-", "1">>, <<"u">>>>,
     <<<<"a">>, <<" ">>, <<"v">>>>,
     <<<<"a">>, <<"N", "a", "N">>, <<"u">>>>,
     <<<<"a", "b">>, <<"7", "x">>, <<"u">>>>}

---------------------------------------------------------------------------
(* state *)

VARIABLES
    cfg,         \* the metric specification (immutable)
    m,           \* the Metric metric.New returned, or its error
    vec,         \* the metric's vector: label tuple -> sample
    labelMaps,   \* the label maps of labelsPool.New, by identity
    labelsPool,  \* the identities of the maps that are in the pool
    frames,      \* per worker: the Parse call it is in
    last,        \* the Parse call that returned last: line, result, vector calls
    observed,    \* label tuple -> number and sum of the observations made by
                 \* the calls that returned nil
    ncalls,      \* the number of Parse calls made so far
    crashed      \* a panic has ended the process

\* The pipeline around the metrics: listener -> hand-off queue -> workers, and
\* the shutdown sequence of run.
VARIABLES
    sock,        \* the listener's socket: "open" or "closed"
    lst,         \* the receive loop of Syslog.Start: position, buffer, payload
    dgrams,      \* the datagrams read so far, in order
    queue,       \* the payloads in the hand-off queue (syslogMessageBuffer)
    qclosed,     \* the hand-off queue has been closed
    wk,          \* per worker: "loop" or "returned"
    handled,     \* the payloads the workers have handled, with Parse's results
    parseErrors, \* the value of log_parse_errors_total
    ctx,         \* run's context: "live", or the cause of its cancellation
    runpc        \* the position of run

\* The configuration of the service and what is sent to it.
VARIABLES
    conf,        \* config.Config: BufferSize, WorkerCount, the preset's metrics
                 \* and the scheme of the listen address
    env,         \* the datagrams senders may send and the reads followed
    socketFile,  \* the unix socket path exists in the file system
    closeErrs    \* the results of the calls of Syslog.Close, in order

\* The nginx stub_status collector.
VARIABLES
    upMetric,    \* the value of the gauge nginx_up
    mu,          \* the collector's mutex: 0, or the scrape that holds it
    collects     \* per scrape of the registry: its Collect call and what the
                 \* registry has gathered from it

\* execute, its runs and the signals of the process.
VARIABLES
    termCh,      \* the signals notified and not yet received (capacity 1)
    cancels,     \* the causes run's cancel was called with, in order
    codes,       \* the return codes of the runs of execute, in order
    sent,        \* the number of signals sent to the process so far
    http         \* the HTTP server of run: "none", "serving", "failed", "closed"

pvars == <<sock, lst, dgrams, queue, qclosed, wk, handled, parseErrors, ctx, runpc>>

mvars == <<cfg, m, vec, labelMaps, labelsPool, frames, last, observed, ncalls>>

xvars == <<conf, env, socketFile, closeErrs>>

nvars == <<upMetric, mu, collects>>

evars == <<termCh, cancels, codes, sent, http>>

vars == <<cfg, m, vec, labelMaps, labelsPool, frames, last, observed, ncalls, crashed,
          sock, lst, dgrams, queue, qclosed, wk, handled, parseErrors, ctx, runpc,
          conf, env, socketFile, closeErrs, upMetric, mu, collects,
          termCh, cancels, codes, sent, http>>

Workers == 1..NumWorkers

\* A configuration of the service before any is loaded.
NoConfig == [BufferSize |-> 0, WorkerCount |-> 0, Preset |-> <<>>, Scheme |-> "udp"]

Idle ==
    [pc |-> "idle", line |-> <<>>, value |-> <<>>, valueIndex |-> 0,
     upstreams |-> <<>>, labels |-> 0, updates |-> <<>>]

Init ==
    /\ cfg \in Configs
    /\ m = NoMetric("none")
    /\ vec = [t \in {} |-> Zero]
    /\ labelMaps = <<>>
    /\ labelsPool = {}
    /\ frames = [w \in Workers |-> Idle]
    /\ last = [line |-> <<>>, ret |-> "none", updates |-> <<>>]
    /\ observed = [t \in {} |-> [k |-> 0, sum |-> Zero]]
    /\ ncalls = 0
    /\ crashed = FALSE
    /\ sock = "closed"
    /\ lst = [pc |-> "done", buf |-> <<>>, id |-> 0, payload |-> <<>>,
             err |-> "none"]
    /\ dgrams = <<>>
    /\ queue = <<>>
    /\ qclosed = FALSE
    /\ wk = [w \in Workers |-> "returned"]
    /\ handled = {}
    /\ parseErrors = 0
    /\ ctx = "live"
    /\ runpc = "none"
    /\ conf = NoConfig
    /\ env = [datagrams |-> {}, reads |-> 0, errors |-> {}]
    /\ socketFile = FALSE
    /\ closeErrs = <<>>
    /\ upMetric = 0
    /\ mu = 0
    /\ collects = <<>>
    /\ termCh = <<>>
    /\ cancels = <<>>
    /\ codes = <<>>
    /\ sent = 0
    /\ http = "none"

\* The observations of a call that returned nil, added to the record.
RECURSIVE Observe(_, _, _)
Observe(obs, upd, first) ==
    IF upd = <<>> THEN obs
    ELSE LET u == Head(upd)
             old == IF u.labels \in DOMAIN obs THEN obs[u.labels]
                    ELSE [k |-> 0, sum |-> Zero]
             seen == \E j \in 1..Len(first) : first[j].labels = u.labels
             new == [k |-> IF seen THEN old.k ELSE old.k + 1, sum |-> FAdd(old.sum, u.v)]
         IN  Observe([t \in (DOMAIN obs) \cup {u.labels} |->
                         IF t = u.labels THEN new ELSE obs[t]],
                     Tail(upd), Append(first, u))

\* Parse returns ret to worker w: the result is recorded, and a panic ends the
\* process.
Return(w, line, ret, updates) ==
    /\ last' = [line |-> line, ret |-> ret, updates |-> updates]
    /\ observed' = IF ret = "nil" THEN Observe(observed, updates, <<>>) ELSE observed
    /\ crashed' = (ret \in Panics)
    /\ frames' = [frames EXCEPT ![w] = Idle]

\* labelsPool.Get: a pooled map, or a new one when the pool is empty.
PoolGet == IF labelsPool = {} THEN {Len(labelMaps) + 1} ELSE labelsPool

---------------------------------------------------------------------------
(* actions *)

\* metric.New(cfg)
NewMetric ==
    /\ m.state = "none"
    /\ m' = New(cfg)
    /\ UNCHANGED <<cfg, vec, labelMaps, labelsPool, frames, last, observed, ncalls, crashed>>
    /\ UNCHANGED <<pvars, xvars, nvars, evars>>

\* Worker w calls Parse(line): the call runs to its return, or to the start of
\* the comma walk of an upstream metric.  The workers are the same goroutine
\* body over the same channel, so the line goes to the first idle one.
ParseCall(w, line) ==
    /\ m.state = "ok"
    /\ ~crashed
    /\ frames[w].pc = "idle"
    /\ \A v \in 1..(w - 1) : frames[v].pc # "idle"
    /\ ncalls < MaxCalls
    /\ ncalls' = ncalls + 1
    /\ \E id \in PoolGet :
        LET maps0 == IF id > Len(labelMaps) THEN Append(labelMaps, EmptyLabels)
                     ELSE labelMaps
            e == ParseEntry(cfg, m, line, maps0[id])
        IN  IF ~e.pooled
            THEN /\ Return(w, line, e.res.err, <<>>)
                 /\ UNCHANGED <<vec, labelMaps, labelsPool>>
            ELSE IF e.walk
            THEN /\ frames' = [frames EXCEPT ![w] =
                        [pc |-> "walk", line |-> line, value |-> e.value,
                         valueIndex |-> 0, upstreams |-> e.upstreams,
                         labels |-> id, updates |-> <<>>]]
                 /\ labelMaps' = [maps0 EXCEPT ![id] = e.labels]
                 /\ labelsPool' = labelsPool \ {id}
                 /\ UNCHANGED <<vec, last, observed, crashed>>
            ELSE /\ vec' = ApplyUpdates(cfg, m, vec, e.res.upd)
                 /\ labelMaps' = [maps0 EXCEPT ![id] = returnLabelsToPool(e.labels)]
                 /\ labelsPool' = labelsPool \cup {id}
                 /\ Return(w, line, e.res.err, e.res.upd)
    /\ UNCHANGED <<cfg, m>>
    /\ UNCHANGED <<pvars, xvars, nvars, evars>>

\* Worker w runs one iteration of the comma walk: one value element, at most one
\* call on the vector.
WalkStep(w) ==
    LET f == frames[w]
        it == WalkIteration(cfg, m, f.value, f.upstreams, f.valueIndex,
                            labelMaps[f.labels])
        updates == f.updates \o it.res.upd
    IN  /\ ~crashed
        /\ f.pc = "walk"
        /\ vec' = ApplyUpdates(cfg, m, vec, it.res.upd)
        /\ IF it.break
           THEN /\ labelMaps' = [labelMaps EXCEPT ![f.labels] = returnLabelsToPool(it.labels)]
                /\ labelsPool' = labelsPool \cup {f.labels}
                /\ Return(w, f.line, it.res.err, updates)
           ELSE /\ labelMaps' = [labelMaps EXCEPT ![f.labels] = it.labels]
                /\ frames' = [frames EXCEPT ![w] =
                        [f EXCEPT !.value = it.remaining,
                                  !.valueIndex = f.valueIndex + 1,
                                  !.updates = updates]]
                /\ UNCHANGED <<labelsPool, last, observed, crashed>>
        /\ UNCHANGED <<cfg, m, ncalls>>
        /\ UNCHANGED <<pvars, xvars, nvars, evars>>

Next ==
    \/ NewMetric
    \/ \E w \in Workers, line \in Lines : ParseCall(w, line)
    \/ \E w \in Workers : WalkStep(w)

Spec == Init /\ [][Next]_vars

---------------------------------------------------------------------------
(* Vocabulary of the properties.  These definitions describe a text by the *)
(* positions of its bytes; they do not walk it the way the code does.      *)

CommaPositions(s) == {i \in 1..Len(s) : s[i] = ","}

\* The number of comma-separated elements of s.
NumElems(s) == Cardinality(CommaPositions(s)) + 1

\* The position of the k-th comma of s; 0 for k = 0, Len(s) + 1 past the last.
CommaAt(s, k) ==
    IF k = 0 THEN 0
    ELSE IF k > Cardinality(CommaPositions(s)) THEN Len(s) + 1
    ELSE CHOOSE p \in CommaPositions(s) :
            Cardinality({q \in CommaPositions(s) : q < p}) = k - 1

\* The k-th comma-separated element of s (k = 1 is the first).
Elem(s, k) == SubSeq(s, CommaAt(s, k - 1) + 1, CommaAt(s, k) - 1)

\* s without its leading and trailing white space.
Trimmed(s) ==
    LET ink == {i \in 1..Len(s) : ~IsSpace(s[i])}
    IN  IF ink = {} THEN <<>>
        ELSE SubSeq(s, CHOOSE i \in ink : \A j \in ink : i <= j,
                       CHOOSE i \in ink : \A j \in ink : j <= i)

Min(a, b) == IF a < b THEN a ELSE b

LabelsInRange(line) ==
    \A i \in 1..Len(cfg.Labels) : cfg.Labels[i].LineIndex < Len(line)

\* The line is not skipped: it has a non-empty first field and, when a value
\* index is configured, a value that is in range and no sentinel.
HasObservation(line) ==
    /\ Len(line) > 0
    /\ line[1] # <<>>
    /\ cfg.ValueIndex # <<>> =>
        /\ cfg.ValueIndex[1] < Len(line)
        /\ line[cfg.ValueIndex[1] + 1] \notin {<<>>, <<"-">>}

\* The value field of the line after the metric-level replacements.
ValueField(line) == valueReplacements(cfg.Replacements, line[cfg.ValueIndex[1] + 1])

\* The addresses field is needed: for the excludes or for the label.
NeedsAddresses == Len(cfg.Upstream.Excludes) # 0 \/ cfg.Upstream.Label

\* Parse(line) reaches the upstream fan-out with the addresses it needs.
FansOut(line) ==
    /\ cfg.Upstream.Enabled
    /\ cfg.ValueIndex # <<>>
    /\ HasObservation(line)
    /\ LabelsInRange(line)
    /\ ValueField(line) # <<>>
    /\ NeedsAddresses => cfg.Upstream.AddrLineIndex < Len(line)

AddressField(line) == line[cfg.Upstream.AddrLineIndex + 1]

\* The address paired with the value element at (zero-based) position i.
PairedAddress(line, i) ==
    Trimmed(Elem(AddressField(line),
                 Min(i, NumElems(AddressField(line)) - 1) + 1))

Excluded(addr) ==
    \E i \in 1..Len(cfg.Upstream.Excludes) : cfg.Upstream.Excludes[i] = addr

\* The k-th value element stays after removing "-", the empty elements and the
\* elements paired with an excluded address.
Remains(line, k) ==
    /\ Trimmed(Elem(ValueField(line), k)) \notin {<<>>, <<"-">>}
    /\ ~(NeedsAddresses /\ Excluded(PairedAddress(line, k - 1)))

Returned == last.ret # "none"

Quiescent == \A w \in Workers : frames[w].pc = "idle"

TuplesOf(upd) == {upd[j].labels : j \in 1..Len(upd)}

---------------------------------------------------------------------------
(* properties *)

\* C1 (as claimed): a Parse call that returns an error has made no call on the
\* vector, so the registry is what it was before the call; upstream fan-out
\* lines included.
C1_ErrorLeavesRegistryUntouched ==
    (Returned /\ last.ret \in Errors) => last.updates = <<>>

\* C2: every index Parse references is checked against the line first: an
\* index >= len(line) makes the call return the index error of that index, no
\* read outside the line happens, and the call makes no call on the vector.
C2_IndicesAreBoundsChecked ==
    Returned =>
        LET line == last.line
            nonEmpty == Len(line) > 0 /\ line[1] # <<>>
        IN  /\ last.ret # PanicIndex
            /\ (nonEmpty /\ cfg.ValueIndex # <<>> /\ cfg.ValueIndex[1] >= Len(line))
                  => last.ret = ErrValueIndex
            /\ (HasObservation(line) /\ ~LabelsInRange(line))
                  => last.ret = ErrLabelIndex
            /\ (/\ HasObservation(line) /\ LabelsInRange(line)
                /\ cfg.ValueIndex # <<>> /\ cfg.Upstream.Enabled
                /\ ValueField(line) # <<>>
                /\ NeedsAddresses /\ cfg.Upstream.AddrLineIndex >= Len(line))
                  => last.ret = ErrUpstreamIndex
            /\ last.ret \in IndexErrors => last.updates = <<>>

C2_Witness ==
    /\ last.ret = ErrUpstreamIndex
    /\ vec # <<>>

\* C3 (as claimed): one Parse call touches at most one label tuple.
C3_AtMostOneTuple ==
    Returned => Cardinality(TuplesOf(last.updates)) <= 1

\* C3 (amended): the tuples one Parse call touches agree on every declared
\* label; there is at most one tuple, and without upstream.enabled at most one
\* update, unless upstream.enabled and upstream.label hold, and then there is
\* at most one tuple per comma-separated element of the value field.
C3_TuplesOfOneCall ==
    Returned =>
        LET upd == last.updates
        IN  /\ \A t1, t2 \in TuplesOf(upd) :
                \A i \in 1..Len(cfg.Labels) :
                    t1[cfg.Labels[i].Name] = t2[cfg.Labels[i].Name]
            /\ ~(cfg.Upstream.Enabled /\ cfg.Upstream.Label)
                  => Cardinality(TuplesOf(upd)) <= 1
            /\ ~cfg.Upstream.Enabled => Len(upd) <= 1
            /\ upd # <<>> /\ cfg.ValueIndex # <<>>
                  => Cardinality(TuplesOf(upd)) <= NumElems(ValueField(last.line))

C3_Witness ==
    /\ last.ret = "nil"
    /\ Cardinality(TuplesOf(last.updates)) = 2

\* C4 (as claimed): when no call is in progress, every sample of a counter is
\* the sum of the values observed for its tuple by the calls that returned nil
\* (the number of those calls when no value index is configured).
C4_CounterIsSumOfSuccessfulParses ==
    (Quiescent /\ m.kind = "CounterVec") =>
        \A t \in (DOMAIN vec) \cup (DOMAIN observed) :
            LET exposed == IF t \in DOMAIN vec THEN vec[t] ELSE Zero
                seen == IF t \in DOMAIN observed THEN observed[t]
                        ELSE [k |-> 0, sum |-> Zero]
            IN  exposed = IF cfg.ValueIndex = <<>> THEN Fin(seen.k, 1) ELSE seen.sum

\* The value a call without fan-out hands to the vector.
PlainValue(line) == ParseFloat(Trimmed(ValueField(line)))

C5_NegativeRejected ==
    /\ \A w \in Workers : \A j \in 1..Len(frames[w].updates) :
            m.kind = "CounterVec" => ~FLt(frames[w].updates[j].v, Zero)
    /\ Returned =>
        /\ \A j \in 1..Len(last.updates) :
                m.kind = "CounterVec" => ~FLt(last.updates[j].v, Zero)
        /\ (/\ m.kind = "CounterVec" /\ cfg.ValueIndex # <<>> /\ ~cfg.Upstream.Enabled
            /\ HasObservation(last.line) /\ LabelsInRange(last.line)
            /\ PlainValue(last.line).ok
            /\ FLt(applyMathTransformations(cfg, PlainValue(last.line).v), Zero))
              => (last.ret = ErrNegativeCounter /\ last.updates = <<>>)

C5_NeverDecreases ==
    m.kind = "CounterVec" =>
        \A t \in DOMAIN vec : t \in DOMAIN vec' /\ ~FLt(vec'[t], vec[t])

\* C5: no step of any worker decreases a counter sample or removes it, and a
\* value that is negative after the math rescaling is rejected with the
\* negative-counter error without a call on the vector.
C5_CounterMonotonic == [](C5_NegativeRejected) /\ [][C5_NeverDecreases]_vars

C5_Witness ==
    /\ last.ret = ErrNegativeCounter
    /\ cfg.Math.Enabled
    /\ vec # <<>>

\* The number of value elements of the line that stay.
RemainingCount(line) ==
    Cardinality({k \in 1..NumElems(ValueField(line)) : Remains(line, k)})

C8_FixedArity ==
    /\ last.ret # PanicLabels
    /\ \A j \in 1..Len(last.updates) :
            DOMAIN last.updates[j].labels
                = {m.labelKeys[i] : i \in 1..Len(m.labelKeys)}

\* C9: a line without fields, or with an empty first field, makes Parse return
\* nil without a call on the vector.
C9_EmptyLineIsSkipped ==
    (Returned /\ (last.line = <<>> \/ last.line[1] = <<>>)) =>
        (last.ret = "nil" /\ last.updates = <<>>)

C9_Witness ==
    /\ last.ret = "nil"
    /\ Len(last.line) = 3
    /\ last.line[1] = <<>>
    /\ vec # <<>>

\* C10: a value field that is exactly "" or "-" makes Parse return nil without
\* a call on the vector, whatever the kind of the metric.
C10_SentinelIsSkipped ==
    (/\ Returned
     /\ cfg.ValueIndex # <<>>
     /\ cfg.ValueIndex[1] < Len(last.line)
     /\ last.line[cfg.ValueIndex[1] + 1] \in {<<>>, <<"-">>}) =>
        (last.ret = "nil" /\ last.updates = <<>>)

C10_Witness ==
    /\ last.ret = "nil"
    /\ m.kind = "HistogramVec"
    /\ Len(last.line) = 3
    /\ last.line[1] # <<>>
    /\ last.line[2] = <<"-">>
    /\ vec # <<>>

\* A Parse call that hands one value to the vector: a value index, no
\* upstream fan-out, a line that is not skipped and whose labels are in range.
PlainCall(line) ==
    /\ cfg.ValueIndex # <<>>
    /\ ~cfg.Upstream.Enabled
    /\ HasObservation(line)
    /\ LabelsInRange(line)

\* C11 (as claimed): a value text that does not denote a finite number (also
\* NaN and the infinities) makes Parse return the parse-value error without a
\* call on the vector; no call on the vector carries a value that is not finite.
C11_NonFiniteTextIsParseError ==
    Returned =>
        /\ \A j \in 1..Len(last.updates) : last.updates[j].v.k = "fin"
        /\ (/\ PlainCall(last.line)
            /\ Trimmed(ValueField(last.line)) # <<>>
            /\ ~(PlainValue(last.line).ok /\ PlainValue(last.line).v.k = "fin"))
              => (last.ret = ErrParseValue /\ last.updates = <<>>)

\* C12: with math disabled, or enabled with div = 0 and mul = 0, the value
\* handed to the vector is the parsed value; a div # 0 divides it and a
\* mul # 0 multiplies it; the division comes before the multiplication, and
\* no step divides or multiplies by zero.
C12_MathRescaling ==
    /\ \A i \in 1..Len(mathSteps(cfg)) :
        /\ mathSteps(cfg)[i].by # Zero
        /\ \A j \in 1..Len(mathSteps(cfg)) :
            (mathSteps(cfg)[i].op = "div" /\ mathSteps(cfg)[j].op = "mul") => i < j
    /\ ~cfg.Math.Enabled => mathSteps(cfg) = <<>>
    /\ (Returned /\ PlainCall(last.line) /\ PlainValue(last.line).ok
        /\ last.ret = "nil") =>
        LET pv == PlainValue(last.line).v
            mul == cfg.Math.Mul
            div == cfg.Math.Div
            scaled == IF cfg.Math.Enabled /\ mul # Zero THEN FMul(pv, mul) ELSE pv
        IN  /\ Len(last.updates) = 1
            /\ IF cfg.Math.Enabled /\ div # Zero
               THEN FMul(last.updates[1].v, div) = scaled
               ELSE last.updates[1].v = scaled

C12_Witness ==
    /\ Returned /\ PlainCall(last.line) /\ last.ret = "nil"
    /\ cfg.Math.Enabled /\ cfg.Math.Div # Zero /\ cfg.Math.Mul # Zero
    /\ Len(last.updates) = 1
    /\ last.updates[1].v # PlainValue(last.line).v
    /\ vec # <<>>

\* The pattern of a replacement entry: its string or its regular expression.
Pattern(r) == IF r.String # <<>> THEN r.String[1] ELSE r.Regexp[1]

\* The entries of the list that match the text.
Matching(replacements, text) ==
    {k \in 1..Len(replacements) : Contains(text, Pattern(replacements[k]))}

\* The first entry of the list, in declaration order, that matches the text.
FirstMatch(replacements, text) ==
    CHOOSE k \in Matching(replacements, text) :
        \A h \in Matching(replacements, text) : k <= h

\* The text rewritten by the first matching entry and by that entry only.
Rewritten(replacements, text) ==
    IF Matching(replacements, text) = {} THEN text
    ELSE LET r == replacements[FirstMatch(replacements, text)]
         IN  ReplaceAll(text, Pattern(r), r.Replacement)

\* The value of the declared label i for the line.
LabelValue(line, i) ==
    LET field == line[cfg.Labels[i].LineIndex + 1]
    IN  Rewritten(cfg.Labels[i].Replacements,
                  IF cfg.Labels[i].UserAgent THEN UserAgentFamily(field) ELSE field)

\* C13 (as claimed): a counter without value index makes exactly one call on
\* the vector, an increment by 1 of the line's label tuple, for every line
\* with a non-empty first field and label indices in range, whatever the rest
\* of the configuration is.
C13_IncrementsByOne ==
    (/\ Returned
     /\ cfg.ValueIndex = <<>>
     /\ Len(last.line) > 0 /\ last.line[1] # <<>>
     /\ LabelsInRange(last.line)) =>
        /\ last.ret = "nil"
        /\ Len(last.updates) = 1
        /\ last.updates[1].v = One
        /\ \A i \in 1..Len(cfg.Labels) :
              last.updates[1].labels[cfg.Labels[i].Name] = LabelValue(last.line, i)

Rejected(c) ==
    \/ c.Name = ""
    \/ c.ValueIndex = <<>> /\ c.Type # "counter"
    \/ \E i \in 1..Len(c.Labels) : c.Labels[i].Name = ""
    \/ c.Type \notin {"counter", "gauge", "histogram"}

\* C15: metric.New returns an error and no Metric exactly when the
\* specification has an empty name, no value index while its kind is not
\* counter, a label with an empty name, or a kind that is none of counter,
\* gauge and histogram; every other specification yields a Metric of its kind.
C15_NewRejectsExactly ==
    m.state # "none" =>
        /\ m.state = "error" <=> Rejected(cfg)
        /\ m.state = "error" => (m.kind = "" /\ ~Returned)
        /\ m.state = "ok" =>
              /\ m.kind = (CASE cfg.Type = "counter" -> "CounterVec"
                             [] cfg.Type = "gauge" -> "GaugeVec"
                             [] cfg.Type = "histogram" -> "HistogramVec")
              /\ Len(m.labelKeys) = LabelCount(cfg)

C15_Witness ==
    /\ m.state = "error"
    /\ cfg.Name # ""
    /\ cfg.Type = "counter"
    /\ cfg.ValueIndex # <<>>
    /\ \E i \in 1..Len(cfg.Labels) : cfg.Labels[i].Name = ""

\* The cumulative count a histogram sample exposes for its i-th bound; the
\* +Inf bucket that ends the exposition is the sample's count.
RECURSIVE CumulativeCount(_, _)
CumulativeCount(h, i) ==
    IF i = 0 THEN 0 ELSE CumulativeCount(h, i - 1) + h.counts[i]

\* The calls on the vector made by the step: those a walk step appended to
\* its call's log, or those of a call that ran to its return in one step.
StepUpdates ==
    IF \E w \in Workers : frames[w].pc = "walk" /\ frames'[w] # frames[w]
    THEN LET w == CHOOSE w \in Workers : frames[w].pc = "walk" /\ frames'[w] # frames[w]
             all == IF frames'[w].pc = "walk" THEN frames'[w].updates
                    ELSE last'.updates
         IN  SubSeq(all, Len(frames[w].updates) + 1, Len(all))
    ELSE IF ncalls' # ncalls /\ frames' = frames THEN last'.updates
    ELSE <<>>

C16_BucketsOrdered ==
    m.kind = "HistogramVec" =>
        \A t \in DOMAIN vec :
            /\ \A i \in 1..Len(vec[t].counts) :
                  CumulativeCount(vec[t], i - 1) <= CumulativeCount(vec[t], i)
            /\ CumulativeCount(vec[t], Len(vec[t].counts)) <= vec[t].count
            /\ Len(vec[t].counts) = Len(Buckets(cfg))

C16_CountsObservations ==
    m.kind = "HistogramVec" =>
        /\ \A t \in DOMAIN vec :
              /\ t \in DOMAIN vec'
              /\ vec[t].count <= vec'[t].count
              /\ \A i \in 1..Len(vec[t].counts) :
                    CumulativeCount(vec[t], i) <= CumulativeCount(vec'[t], i)
        /\ \A t \in DOMAIN vec' :
              vec'[t].count =
                  (IF t \in DOMAIN vec THEN vec[t].count ELSE 0)
                  + Cardinality({j \in 1..Len(StepUpdates) : StepUpdates[j].labels = t})

\* C16: the cumulative bucket counts a histogram exposes for a label tuple
\* are non-decreasing in ascending bound order up to the +Inf bucket (the
\* count), no step makes any of them smaller, and every step raises the count
\* of a tuple by the number of observations the step made for it.
C16_HistogramCounts == [](C16_BucketsOrdered) /\ [][C16_CountsObservations]_vars

C16_Witness ==
    /\ m.kind = "HistogramVec"
    /\ \E t \in DOMAIN vec :
        /\ vec[t].count = 2
        /\ vec[t].counts[1] = 1
        /\ CumulativeCount(vec[t], Len(vec[t].counts)) = 1

---------------------------------------------------------------------------
(* the listener: Syslog.Start *)

\* The size of a pooled receive buffer (4096 bytes in the program).
BufLen == 10

\* The capacity of the hand-off queue (conf.BufferSize).
BufferSize == 1

\* The reads of the listener the model follows.
MaxReads == 2

\* The bytes below 0x20 of the model's alphabet; "NUL" is the byte 0.
IsControl(c) == c \in {"NUL", "\t", "\n", "\r"}

\* A buffer as poolBuffer.New makes it.
NewBuffer == [i \in 1..BufLen |-> "NUL"]

\* con.ReadFrom(msg): the datagram, cut to the size of the buffer, is copied
\* to the front of the buffer; the rest of the buffer keeps what it held.
ReadFrom(buf, d) ==
    LET n == IF Len(d) < BufLen THEN Len(d) ELSE BufLen
    IN  [n |-> n, msg |-> SubSeq(d, 1, n) \o SubSeq(buf, n + 1, BufLen)]

\* A faulty variant of trimTrailing: a tab ends the trimming.
RECURSIVE trimTrailingKeepsTabs(_, _)
trimTrailingKeepsTabs(msg, n) ==
    IF n > 0 /\ IsControl(msg[n]) /\ msg[n] # "\t"
    THEN trimTrailingKeepsTabs(msg, n - 1) ELSE n

\* for ; (n > 0) && (msg[n-1] < 32); n-- {}
RECURSIVE trimTrailing(_, _)
trimTrailing(msg, n) ==
    IF n > 0 /\ IsControl(msg[n]) THEN trimTrailing(msg, n - 1) ELSE n

\* A faulty variant of findThirdColon: the space after the third colon is not
\* skipped.
RECURSIVE findThirdColonSpaceKept(_, _, _, _)
findThirdColonSpaceKept(msg, n, i, colonCount) ==
    IF i >= n THEN 0 - 1
    ELSE IF msg[i + 1] = ":"
         THEN IF colonCount + 1 = 3 THEN i
              ELSE findThirdColonSpaceKept(msg, n, i + 1, colonCount + 1)
         ELSE findThirdColonSpaceKept(msg, n, i + 1, colonCount)

\* The loop over i in 0..n-1 that looks for the third ':', from position i
\* with colonCount colons seen: idx (zero-based), or -1.
RECURSIVE findThirdColon(_, _, _, _)
findThirdColon(msg, n, i, colonCount) ==
    IF i >= n THEN 0 - 1
    ELSE IF msg[i + 1] = ":"
         THEN IF colonCount + 1 = 3
              THEN IF i + 1 < n /\ msg[i + 2] = " " THEN i + 1 ELSE i
              ELSE findThirdColon(msg, n, i + 1, colonCount + 1)
         ELSE findThirdColon(msg, n, i + 1, colonCount)

Discard == [publish |-> FALSE, payload |-> <<>>]

\* A faulty variant of receive: the first byte is not tested.
receivePrefixUnchecked(msg, n0) ==
    IF n0 <= 0 THEN Discard
    ELSE LET n == trimTrailing(msg, n0)
             idx == findThirdColon(msg, n, 0, 0)
         IN  IF idx = 0 - 1 THEN Discard
             ELSE [publish |-> TRUE, payload |-> SubSeq(msg, idx + 2, n)]

\* One pass of the receive loop after a read of n0 bytes into msg: whether a
\* payload is published, and the payload string(msg[idx+1 : n]).
receive(msg, n0) ==
    IF n0 <= 0 THEN Discard
    ELSE IF msg[1] # "<" THEN Discard
    ELSE LET n == trimTrailing(msg, n0)
             idx == findThirdColon(msg, n, 0, 0)
         IN  IF idx = 0 - 1 THEN Discard
             ELSE [publish |-> TRUE, payload |-> SubSeq(msg, idx + 2, n)]

---------------------------------------------------------------------------
(* the workers: lineHandlerWorker and lineHandler *)

\* The metrics of the preset: a counter of field 1 per host, and a gauge of
\* field 1 per host and address (field 2).
PresetMetrics ==
    <<Base,
      [Base EXCEPT !.Name = "g", !.Type = "gauge",
                   !.Labels = <<Label("host", 0), Label("addr", 2)>>]>>

\* The comma walk of one Parse call, run to its end: the error it returns.
\* walkNext is the loop's test after one iteration `it`.
RECURSIVE walkAll(_, _, _, _, _, _)
walkNext(c, mt, upstreams, valueIndex, it) ==
    IF it.break THEN it.res.err
    ELSE walkAll(c, mt, it.remaining, upstreams, valueIndex + 1, it.labels)

walkAll(c, mt, value, upstreams, valueIndex, labels) ==
    walkNext(c, mt, upstreams, valueIndex,
             WalkIteration(c, mt, value, upstreams, valueIndex, labels))

\* Metric.Parse after its entry part `e`: the walk, or the entry's own return.
parseAfterEntry(c, mt, e) ==
    IF e.pooled /\ e.walk
    THEN walkAll(c, mt, e.value, e.upstreams, 0, e.labels)
    ELSE e.res.err

\* Metric.Parse of the metric mt run to its return.
parseMetric(c, mt, line) ==
    parseAfterEntry(c, mt, ParseEntry(c, mt, line, EmptyLabels))

\* Metric.Parse run to its return: the error it returns (or its panic).
Parse(c, line) == parseMetric(c, New(c), line)

\* The results lineHandler has collected when it ends: all of them, or those
\* up to the first panic.
cutAtPanic(rets) ==
    IF \A i \in 1..Len(rets) : rets[i] \notin Panics THEN rets
    ELSE SubSeq(rets, 1, CHOOSE i \in 1..Len(rets) :
                            /\ rets[i] \in Panics
                            /\ \A j \in 1..(i - 1) : rets[j] \notin Panics)

\* lineHandler: Parse of every metric in declaration order, whatever the
\* metrics before returned; a panic ends it at the metric that panicked.
lineHandler(metrics, line) ==
    cutAtPanic([i \in 1..Len(metrics) |-> Parse(metrics[i], line)])

\* A faulty variant of lineHandlerWorkers: no default for a count of zero or
\* less.
lineHandlerWorkersNoDefault(workerCount) == workerCount

\* The number of CPU cores (runtime.NumCPU()).
NumCPU == 2

\* lineHandlerWorkers: the number of workers it starts.
lineHandlerWorkers(workerCount) ==
    IF workerCount <= 0 THEN NumCPU ELSE workerCount

\* A faulty variant of parseErrorIncrement: one increment per failed metric.
parseErrorIncrementPerMetric(rets) ==
    Cardinality({i \in 1..Len(rets) : rets[i] # "nil"})

\* The increment of log_parse_errors_total for the results of one line: Inc()
\* when the joined error is not nil.
parseErrorIncrement(rets) ==
    IF \E i \in 1..Len(rets) : rets[i] # "nil" THEN 1 ELSE 0

---------------------------------------------------------------------------
(* the pipeline: listener, hand-off queue, workers and the shutdown of run *)

\* The datagrams the listener is sent: "<:::" stands for a syslog header with
\* its three colons.
Datagrams ==
    {<<>>,
     <<"x", ":", ":", ":", "a">>,
     <<"<", ":", ":", "a">>,
     <<"<", ":", ":", ":", " ", "a", "\t", "1", "\t", "u">>,
     <<"<", ":", ":", ":", "a", "\t", "1", "\n">>,
     <<"<", ":", ":", ":", "a", "\t", "x">>,
     <<"<", ":", ":", ":", "a", "\t", "-">>,
     <<"<", ":", ":", ":">>,
     <<"<", ":", ":", ":", " ", " ", "a", ":", "1">>,
     <<"<", ":", ":", ":", "a", "\t", "1", "\t", "u", "\t", "z", "z">>,
     <<"<", ":", ":", "a", "a", "a", "a", "a", "a", "a", ":", "b">>,
     <<"<", ":", ":", ":", "a", "\t", "\t", "u">>}

\* The signals run handles.
Signals == {"SIGHUP", "SIGTERM"}

PipelineInit ==
    /\ cfg = Base
    /\ m = NoMetric("none")
    /\ vec = [t \in {} |-> Zero]
    /\ labelMaps = <<>>
    /\ labelsPool = {}
    /\ frames = [w \in Workers |-> Idle]
    /\ last = [line |-> <<>>, ret |-> "none", updates |-> <<>>]
    /\ observed = [t \in {} |-> [k |-> 0, sum |-> Zero]]
    /\ ncalls = 0
    /\ crashed = FALSE
    /\ sock = "open"
    /\ lst = [pc |-> "read", buf |-> NewBuffer, id |-> 0, payload |-> <<>>,
             err |-> "none"]
    /\ dgrams = <<>>
    /\ queue = <<>>
    /\ qclosed = FALSE
    /\ conf = [BufferSize |-> BufferSize, WorkerCount |-> NumCPU,
               Preset |-> PresetMetrics, Scheme |-> "udp"]
    /\ env = [datagrams |-> Datagrams, reads |-> MaxReads,
              errors |-> {"temporary"}]
    /\ wk = [w \in 1..lineHandlerWorkers(conf.WorkerCount) |-> "loop"]
    /\ handled = {}
    /\ parseErrors = 0
    /\ ctx = "live"
    /\ runpc = "select"
    /\ socketFile = FALSE
    /\ closeErrs = <<>>
    /\ upMetric = 0
    /\ mu = 0
    /\ collects = <<>>
    /\ termCh = <<>>
    /\ cancels = <<>>
    /\ codes = <<>>
    /\ sent = 0
    /\ http = "serving"

\* Start: a datagram is read into the pooled buffer and looked at; the loop
\* goes on to publish its payload or to the next read.
ListenerRead(d) ==
    /\ ~crashed
    /\ lst.pc = "read"
    /\ sock = "open"
    /\ d \in env.datagrams
    /\ Len(dgrams) < env.reads
    /\ LET rd == ReadFrom(lst.buf, d)
           r == receive(rd.msg, rd.n)
       IN  lst' = [pc |-> IF r.publish THEN "publish" ELSE "read",
                   buf |-> rd.msg, id |-> Len(dgrams) + 1, payload |-> r.payload,
                   err |-> "none"]
    /\ dgrams' = Append(dgrams, d)
    /\ UNCHANGED <<sock, queue, qclosed, wk, handled, parseErrors, ctx, runpc>>
    /\ UNCHANGED <<mvars, xvars, nvars, evars, crashed>>

\* The errors of ReadFrom: the closed connection's, which is a net.OpError
\* that is neither temporary nor a timeout, and on an open socket another
\* such net.OpError, a temporary one, a timeout, or an error that is no
\* net.OpError.
OpErrors == {"closed", "permanent", "temporary", "timeout"}
OpenSocketErrors == {"permanent", "temporary", "timeout", "other"}
Temporary(e) == e = "temporary"
Timeout(e) == e = "timeout"

\* The errors ReadFrom can return now.
ReadErrors == IF sock = "closed" THEN {"closed"} ELSE env.errors

\* A faulty variant of startReturns: timeouts are not told apart.
startReturnsOnTimeout(e) == e \in OpErrors /\ ~Temporary(e)

\* Start: the test after a failed read,
\* errors.As(err, &opError) && !opError.Temporary() && !opError.Timeout()
startReturns(e) == e \in OpErrors /\ ~Temporary(e) /\ ~Timeout(e)

\* Start: the read fails with an error on which Start returns, as it does
\* when the socket is closed.
ListenerReadFails ==
    /\ ~crashed
    /\ lst.pc = "read"
    /\ \E e \in ReadErrors :
          /\ startReturns(e)
          /\ lst' = [lst EXCEPT !.pc = "done", !.err = e]
    /\ UNCHANGED <<sock, dgrams, queue, qclosed, wk, handled, parseErrors, ctx, runpc>>
    /\ UNCHANGED <<mvars, xvars, nvars, evars, crashed>>

\* Start: the read fails with any other error; the loop sleeps before its
\* next read.
ListenerReadTransient ==
    /\ ~crashed
    /\ lst.pc = "read"
    /\ \E e \in ReadErrors :
          /\ ~startReturns(e)
          /\ lst' = [lst EXCEPT !.pc = "sleep", !.err = e]
    /\ UNCHANGED <<sock, dgrams, queue, qclosed, wk, handled, parseErrors, ctx, runpc>>
    /\ UNCHANGED <<mvars, xvars, nvars, evars, crashed>>

\* Start: time.Sleep returns, the buffer goes back to the pool, continue.
ListenerWake ==
    /\ ~crashed
    /\ lst.pc = "sleep"
    /\ lst' = [lst EXCEPT !.pc = "read", !.err = "none"]
    /\ UNCHANGED <<sock, dgrams, queue, qclosed, wk, handled, parseErrors, ctx, runpc>>
    /\ UNCHANGED <<mvars, xvars, nvars, evars, crashed>>

\* A faulty variant of ListenerPublish: the send does not wait for room in
\* the queue.
ListenerPublishUnbounded ==
    /\ ~crashed
    /\ lst.pc = "publish"
    /\ IF qclosed
       THEN /\ crashed' = TRUE
            /\ UNCHANGED <<lst, queue>>
       ELSE /\ queue' = Append(queue, [id |-> lst.id, msg |-> lst.payload,
                                       early |-> ctx = "live"])
            /\ lst' = [lst EXCEPT !.pc = "read"]
            /\ UNCHANGED crashed
    /\ UNCHANGED <<sock, dgrams, qclosed, wk, handled, parseErrors, ctx, runpc>>
    /\ UNCHANGED <<mvars, xvars, nvars, evars>>

\* Start: s.msgCh <- payload.  The send waits while the queue is full, and
\* panics on a closed queue.
ListenerPublish ==
    /\ ~crashed
    /\ lst.pc = "publish"
    /\ IF qclosed
       THEN /\ crashed' = TRUE
            /\ UNCHANGED <<lst, queue>>
       ELSE /\ Len(queue) < conf.BufferSize
            /\ queue' = Append(queue, [id |-> lst.id, msg |-> lst.payload,
                                       early |-> ctx = "live"])
            /\ lst' = [lst EXCEPT !.pc = "read"]
            /\ UNCHANGED crashed
    /\ UNCHANGED <<sock, dgrams, qclosed, wk, handled, parseErrors, ctx, runpc>>
    /\ UNCHANGED <<mvars, xvars, nvars, evars>>

\* What a worker does with the results of lineHandler for one payload: Inc()
\* of the parse-error counter when the joined error is not nil; a panic in
\* Parse is not recovered and ends the process.
WorkerHandle(item, rets) ==
    /\ handled' = handled \cup {[id |-> item.id, msg |-> item.msg, rets |-> rets]}
    /\ crashed' = (\E i \in 1..Len(rets) : rets[i] \in Panics)
    /\ parseErrors' = IF \E i \in 1..Len(rets) : rets[i] \in Panics
                      THEN parseErrors
                      ELSE parseErrors + parseErrorIncrement(rets)

\* lineHandlerWorker: a payload is received, split at the tabs and handled;
\* log_parse_errors_total is incremented when lineHandler returns an error.
WorkerReceive(w) ==
    /\ ~crashed
    /\ wk[w] = "loop"
    /\ queue # <<>>
    /\ WorkerHandle(Head(queue),
                    lineHandler(conf.Preset, Split(Head(queue).msg, "\t")))
    /\ queue' = Tail(queue)
    /\ UNCHANGED <<sock, lst, dgrams, qclosed, wk, ctx, runpc>>
    /\ UNCHANGED <<mvars, xvars, nvars, evars>>

\* lineHandlerWorker: the select takes ctx.Done(), or the receive finds the
\* queue closed and empty; the worker returns.
WorkerReturn(w) ==
    /\ ~crashed
    /\ wk[w] = "loop"
    /\ ctx # "live" \/ (qclosed /\ queue = <<>>)
    /\ wk' = [wk EXCEPT ![w] = "returned"]
    /\ UNCHANGED <<sock, lst, dgrams, queue, qclosed, handled, parseErrors, ctx, runpc>>
    /\ UNCHANGED <<mvars, xvars, nvars, evars, crashed>>

\* The return codes of run.
ReturnCodeReload == 0 - 1
ReturnCodeOK == 0
ReturnCodeError == 1

\* A faulty variant of cancel: every call sets the cause.
cancelLastWins(c, cause) == IF cause = "nil" THEN "canceled" ELSE cause

\* cancel(cause) of context.WithCancelCause on a context whose state is c
\* ("live", or its cause): the first call sets the cause, nil standing for
\* context.Canceled; a call on a cancelled context changes nothing.
cancel(c, cause) ==
    IF c # "live" THEN c
    ELSE IF cause = "nil" THEN "canceled" ELSE cause

\* The cause run cancels with when it receives the signal: ErrReload for
\* SIGHUP, nil for every other signal.
signalCause(sig) == IF sig = "SIGHUP" THEN "reload" ELSE "nil"

\* The code run returns for context.Cause(ctx).
returnCode(cause) ==
    IF cause = "live" \/ cause = "canceled" THEN ReturnCodeOK
    ELSE IF cause = "reload" THEN ReturnCodeReload
    ELSE ReturnCodeError

\* run: a signal arrives on termCh and cancels the context with its cause.
RunSignal(sig) ==
    /\ ~crashed
    /\ runpc = "select"
    /\ ctx = "live"
    /\ ctx' = cancel(ctx, signalCause(sig))
    /\ cancels' = Append(cancels, signalCause(sig))
    /\ UNCHANGED <<sock, lst, dgrams, queue, qclosed, wk, handled, parseErrors, runpc>>
    /\ UNCHANGED <<mvars, xvars, nvars, crashed>>
    /\ UNCHANGED <<termCh, codes, sent, http>>

ErrNotInitialized == "syslog server is not initialized"
ErrCouldNotStop == "could not stop syslog server"

\* Syslog.Close on a listener whose connection is con ("nil", "open" or
\* "closed"): the connection, the socket file and the error afterwards.
\* con.Close() fails on a connection that is closed already, and the unix
\* path is removed only after a con.Close() that succeeded.
Close(scheme, con, file) ==
    IF con = "nil" THEN [con |-> con, file |-> file, err |-> ErrNotInitialized]
    ELSE IF con = "closed" THEN [con |-> con, file |-> file, err |-> ErrCouldNotStop]
    ELSE [con |-> "closed", file |-> IF scheme = "unix" THEN FALSE ELSE file,
          err |-> "nil"]

\* The state after a call of Syslog.Close.
SyslogClose ==
    /\ sock' = Close(conf.Scheme, sock, socketFile).con
    /\ socketFile' = Close(conf.Scheme, sock, socketFile).file
    /\ closeErrs' = Append(closeErrs, Close(conf.Scheme, sock, socketFile).err)

\* run: ctx.Done() is taken and syslogServer.Close closes the socket.
RunCloseSyslog ==
    /\ ~crashed
    /\ runpc = "select"
    /\ ctx # "live"
    /\ SyslogClose
    /\ runpc' = "collectorClose"
    /\ UNCHANGED <<lst, dgrams, queue, qclosed, wk, handled, parseErrors, ctx>>
    /\ UNCHANGED <<mvars, conf, env, nvars, evars, crashed>>

\* run: prometheusCollector.Close() returns: wg.Wait() has seen every worker
\* return.
RunCollectorClose ==
    /\ ~crashed
    /\ runpc = "collectorClose"
    /\ \A w \in DOMAIN wk : wk[w] = "returned"
    /\ runpc' = "closeBuffer"
    /\ UNCHANGED <<sock, lst, dgrams, queue, qclosed, wk, handled, parseErrors, ctx>>
    /\ UNCHANGED <<mvars, xvars, nvars, evars, crashed>>

\* run: close(syslogMessageBuffer)
RunCloseBuffer ==
    /\ ~crashed
    /\ runpc = "closeBuffer"
    /\ qclosed' = TRUE
    /\ runpc' = "serverShutdown"
    /\ UNCHANGED <<sock, lst, dgrams, queue, wk, handled, parseErrors, ctx>>
    /\ UNCHANGED <<mvars, xvars, nvars, evars, crashed>>

\* run: the HTTP server is shut down and run returns its code.
RunReturn ==
    /\ ~crashed
    /\ runpc = "serverShutdown"
    /\ http' = IF http = "serving" THEN "closed" ELSE http
    /\ codes' = Append(codes, returnCode(ctx))
    /\ runpc' = "returned"
    /\ UNCHANGED <<sock, lst, dgrams, queue, qclosed, wk, handled, parseErrors, ctx>>
    /\ UNCHANGED <<mvars, xvars, nvars, crashed>>
    /\ UNCHANGED <<termCh, cancels, sent>>

PipelineNext ==
    \/ \E d \in Datagrams : ListenerRead(d)
    \/ ListenerReadFails
    \/ ListenerReadTransient
    \/ ListenerWake
    \/ ListenerPublish
    \/ \E w \in DOMAIN wk : WorkerReceive(w)
    \/ \E w \in DOMAIN wk : WorkerReturn(w)
    \/ \E sig \in Signals : RunSignal(sig)
    \/ RunCloseSyslog
    \/ RunCollectorClose
    \/ RunCloseBuffer
    \/ RunReturn

PipelineSpec == PipelineInit /\ [][PipelineNext]_vars

---------------------------------------------------------------------------
(* the service under the configurations run may be given *)

\* A preset whose first metric is a counter without value_index that carries
\* the upstream label.
UpstreamLabelPreset ==
    <<[Base EXCEPT !.Name = "n", !.ValueIndex = <<>>, !.Upstream = Up(TRUE, <<>>)],
      Base>>

\* A larger capacity of the hand-off queue (conf.BufferSize).
LargeBufferSize == 2

\* worker_count as given, zero and negative; both presets.
ServiceConfigs ==
    {[BufferSize |-> LargeBufferSize, WorkerCount |-> wc, Preset |-> ps,
      Scheme |-> "udp"] :
        wc \in {0 - 1, 0, 1}, ps \in {PresetMetrics, UpstreamLabelPreset}}

\* A line both metrics accept, a line both reject, and an empty payload.
ServiceDatagrams ==
    {<<"<", ":", ":", ":", "a", "\t", "1", "\t", "u">>,
     <<"<", ":", ":", ":", "a", "\t", "x">>,
     <<"<", ":", ":", ":">>}

ServiceInit ==
    /\ cfg = Base
    /\ m = NoMetric("none")
    /\ vec = [t \in {} |-> Zero]
    /\ labelMaps = <<>>
    /\ labelsPool = {}
    /\ frames = [w \in Workers |-> Idle]
    /\ last = [line |-> <<>>, ret |-> "none", updates |-> <<>>]
    /\ observed = [t \in {} |-> [k |-> 0, sum |-> Zero]]
    /\ ncalls = 0
    /\ crashed = FALSE
    /\ sock = "open"
    /\ lst = [pc |-> "read", buf |-> NewBuffer, id |-> 0, payload |-> <<>>,
             err |-> "none"]
    /\ dgrams = <<>>
    /\ queue = <<>>
    /\ qclosed = FALSE
    /\ conf \in ServiceConfigs
    /\ env = [datagrams |-> ServiceDatagrams, reads |-> MaxReads + 2,
              errors |-> {"temporary"}]
    /\ wk = [w \in 1..lineHandlerWorkers(conf.WorkerCount) |-> "loop"]
    /\ handled = {}
    /\ parseErrors = 0
    /\ ctx = "live"
    /\ runpc = "select"
    /\ socketFile = FALSE
    /\ closeErrs = <<>>
    /\ upMetric = 0
    /\ mu = 0
    /\ collects = <<>>
    /\ termCh = <<>>
    /\ cancels = <<>>
    /\ codes = <<>>
    /\ sent = 0
    /\ http = "serving"

ServiceSpec == ServiceInit /\ [][PipelineNext]_vars

---------------------------------------------------------------------------
(* C17: datagrams the listener skips *)

Colons(d) == Cardinality({i \in 1..Len(d) : d[i] = ":"})

\* A datagram of zero length, or not starting with '<', or with fewer than
\* three ':' bytes.
Skipped(d) == Len(d) = 0 \/ d[1] # "<" \/ Colons(d) < 3

\* The ids of the payloads published so far: queued, handled, or held by the
\* listener for its send.
PublishedIds ==
    {queue[i].id : i \in 1..Len(queue)} \cup {h.id : h \in handled}
        \cup (IF lst.pc = "publish" THEN {lst.id} ELSE {})

C17_NothingPublished ==
    \A i \in 1..Len(dgrams) : Skipped(dgrams[i]) => i \notin PublishedIds

C17_ReadOfSkipped ==
    (Len(dgrams') = Len(dgrams) + 1 /\ Skipped(dgrams'[Len(dgrams')]))
        => /\ parseErrors' = parseErrors
           /\ queue' = queue
           /\ handled' = handled
           /\ lst'.pc = "read"

\* C17: for a datagram of zero length, or whose first byte is not '<', or with
\* fewer than three ':' bytes, the listener publishes nothing; the read leaves
\* the parse-error counter as it was and the loop goes on to the next read.
C17_SkippedDatagrams ==
    [](C17_NothingPublished) /\ [][C17_ReadOfSkipped]_vars

\* All three kinds of skipped datagram occur among two reads, the second read
\* following a skipped first one.
C17_Witness ==
    /\ Len(dgrams) = 2
    /\ Skipped(dgrams[1])
    /\ Len(dgrams[1]) > 0 /\ dgrams[1][1] = "<"
    /\ dgrams[2] = <<>>
    /\ lst.pc = "read"
    /\ parseErrors = 0

---------------------------------------------------------------------------
(* C18: the payload of a published datagram *)

\* The position of the third ':' of d.
ThirdColon(d) ==
    CHOOSE p \in 1..Len(d) :
        d[p] = ":" /\ Cardinality({q \in 1..p : d[q] = ":"}) = 3

\* The bytes of d after its third ':', without one space directly after it.
AfterHeader(d) ==
    LET p == ThirdColon(d)
    IN  SubSeq(d, IF p < Len(d) /\ d[p + 1] = " " THEN p + 2 ELSE p + 1, Len(d))

\* The first BufLen bytes of d.
FirstBytes(d) == SubSeq(d, 1, IF Len(d) < BufLen THEN Len(d) ELSE BufLen)

\* d without its trailing bytes below 0x20.
WithoutTrailingControl(d) ==
    SubSeq(d, 1, CHOOSE n \in 0..Len(d) :
                    /\ n = 0 \/ ~IsControl(d[n])
                    /\ \A k \in (n + 1)..Len(d) : IsControl(d[k]))

\* The payloads published for the datagram with id i, each with the place it
\* is in: held by the listener for its send, queued, or handled by a worker.
PublishedFor(i) ==
    {<<"queue", k, queue[k].msg>> : k \in {j \in 1..Len(queue) : queue[j].id = i}}
        \cup {<<"handled", 0, h.msg>> : h \in {g \in handled : g.id = i}}
        \cup (IF lst.pc = "publish" /\ lst.id = i
              THEN {<<"listener", 0, lst.payload>>} ELSE {})

\* C18 (as stated): for every datagram that starts with '<' and holds at least
\* three ':' bytes, exactly one payload is published, and it is the bytes
\* after the third ':' (without one space after it) up to the end of the
\* datagram.
C18_PayloadToEndOfDatagram ==
    \A i \in 1..Len(dgrams) :
        ~Skipped(dgrams[i])
            => /\ Cardinality(PublishedFor(i)) = 1
               /\ \A t \in PublishedFor(i) : t[3] = AfterHeader(dgrams[i])

\* C18 (amended): for every datagram that starts with '<' and holds at least
\* three ':' bytes among its first BufLen bytes, exactly one payload is
\* published: the bytes after the third ':' (without one space after it) of
\* those first bytes without their trailing bytes below 0x20.  Colons in the
\* payload change nothing.  A datagram whose third ':' lies beyond the first
\* BufLen bytes publishes nothing.
C18_PayloadOfDatagram ==
    \A i \in 1..Len(dgrams) :
        LET d == FirstBytes(dgrams[i])
        IN  IF Skipped(d) THEN PublishedFor(i) = {}
            ELSE /\ Cardinality(PublishedFor(i)) = 1
                 /\ \A t \in PublishedFor(i) :
                        t[3] = AfterHeader(WithoutTrailingControl(d))

\* A payload with a colon and a leading space of its own was handled, after a
\* payload that lost its trailing line feed.
C18_Witness ==
    /\ Len(dgrams) = 2
    /\ dgrams[1] = <<"<", ":", ":", ":", "a", "\t", "1", "\n">>
    /\ \E h \in handled : h.id = 1 /\ h.msg = <<"a", "\t", "1">>
    /\ \E h \in handled : h.id = 2 /\ h.msg = <<" ", "a", ":", "1">>

---------------------------------------------------------------------------
(* C19: log_parse_errors_total *)

\* The payloads handled so far for which at least one metric's Parse
\* returned an error.
FailedPayloads == {h \in handled : \E i \in 1..Len(h.rets) : h.rets[i] \in Errors}

\* The payloads the metrics of the preset ignore: the empty line, the line
\* whose first field is empty, and the line whose value (field 1) is the
\* sentinel "" or "-".
IgnoredPayload(msg) ==
    LET line == Split(msg, "\t")
    IN  \/ line[1] = <<>>
        \/ Len(line) >= 2 /\ line[2] \in {<<>>, <<"-">>}

\* C19: the parse-error counter is the number of handled payloads for which at
\* least one metric's Parse returned an error, whatever the number of metrics
\* that failed; handled payloads that are empty or whose value is the sentinel
\* "" or "-" fail in no metric and so do not count.
C19_OnePerFailedPayload ==
    /\ parseErrors = Cardinality(FailedPayloads)
    /\ \A h \in handled :
           IgnoredPayload(h.msg) => \A i \in 1..Len(h.rets) : h.rets[i] = "nil"

\* A payload failed in both metrics and counted once; a payload with the
\* sentinel "-" was handled and did not count.
C19_Witness ==
    /\ ~crashed
    /\ parseErrors = 1
    /\ \E h \in handled : \A i \in 1..Len(PresetMetrics) : h.rets[i] \in Errors
    /\ \E h \in handled : h.msg = <<"a", "\t", "-">> /\ h.rets = <<"nil", "nil">>

---------------------------------------------------------------------------
(* C20: the queue at shutdown *)

\* The payloads in the queue that were published before the context was
\* cancelled.
QueuedBeforeShutdown == {k \in 1..Len(queue) : queue[k].early}

\* C20: every payload published to the queue before shutdown began has been
\* dequeued and handled by a worker when all the workers have returned, and
\* so when Close() completes.
C20_QueueDrainedAtShutdown ==
    (\A w \in DOMAIN wk : wk[w] = "returned") => QueuedBeforeShutdown = {}

---------------------------------------------------------------------------
(* C21: the order of the shutdown *)

\* prometheusCollector.Close() has returned in run.
CollectorCloseReturned == runpc \in {"closeBuffer", "serverShutdown", "returned"}

\* The hand-off queue is never closed while the socket is open.
QueueClosedAfterSocket == qclosed => sock = "closed"

\* C21: in every shutdown the socket is closed before the hand-off queue is
\* closed, and the collector's Close() returns only after the queue has been
\* closed and the workers have drained it.
C21_ShutdownOrder ==
    /\ QueueClosedAfterSocket
    /\ CollectorCloseReturned => qclosed /\ queue = <<>>

---------------------------------------------------------------------------
(* C22: Start returns after Close *)

\* The steps of the receive loop that wait for nothing outside the program
\* but the queue: the failed read, the wake-up and the send.
ListenerStep == ListenerReadFails \/ ListenerWake \/ ListenerPublish

\* The return of worker w.
WorkerStep(w) == w \in DOMAIN wk /\ WorkerReturn(w)

\* The steps of run once the context is cancelled.
RunStep == RunCloseSyslog \/ RunCollectorClose \/ RunCloseBuffer \/ RunReturn

\* The service with its goroutines scheduled fairly: the listener and run
\* eventually take a step they can take, and a worker whose select can take
\* ctx.Done() (or finds the queue closed) eventually returns.  Datagrams,
\* transient read errors and signals come from outside and are not required
\* to happen.
ServiceFair ==
    /\ ServiceSpec
    /\ WF_vars(ListenerStep)
    /\ \A w \in 1..NumCPU : WF_vars(WorkerStep(w))
    /\ WF_vars(RunStep)

\* C22: once Close() has closed the socket, Start() eventually returns,
\* whatever the receive loop is doing at that moment (stated for the preset
\* none of whose metrics panics, so that no worker ends the process).
C22_StartReturnsAfterClose ==
    (conf.Preset = PresetMetrics /\ sock = "closed") ~> (lst.pc = "done")

\* Start returns after Close when the loop is in its read or asleep at the
\* moment of the Close, in a process that does not panic.
StartReturnsFromRead ==
    (conf.Preset = PresetMetrics /\ sock = "closed" /\ lst.pc \in {"read", "sleep"})
        ~> (lst.pc = "done")

---------------------------------------------------------------------------
(* the listener on its own: New, Start, a receiver of the payloads, Close *)

\* The calls of Syslog.Close the model follows.
MaxCloses == 2

\* The receiver takes the next payload from the channel.
ChannelReceive ==
    /\ ~crashed
    /\ queue # <<>>
    /\ queue' = Tail(queue)
    /\ UNCHANGED <<sock, lst, dgrams, qclosed, wk, handled, parseErrors, ctx, runpc>>
    /\ UNCHANGED <<mvars, xvars, nvars, evars, crashed>>

\* The owner of the listener calls Close.
CallClose ==
    /\ ~crashed
    /\ Len(closeErrs) < MaxCloses
    /\ SyslogClose
    /\ UNCHANGED <<lst, dgrams, queue, qclosed, wk, handled, parseErrors, ctx, runpc>>
    /\ UNCHANGED <<mvars, conf, env, nvars, evars, crashed>>

ListenerInit ==
    /\ cfg = Base
    /\ m = NoMetric("none")
    /\ vec = [t \in {} |-> Zero]
    /\ labelMaps = <<>>
    /\ labelsPool = {}
    /\ frames = [w \in Workers |-> Idle]
    /\ last = [line |-> <<>>, ret |-> "none", updates |-> <<>>]
    /\ observed = [t \in {} |-> [k |-> 0, sum |-> Zero]]
    /\ ncalls = 0
    /\ crashed = FALSE
    /\ sock = "open"
    /\ lst = [pc |-> "read", buf |-> NewBuffer, id |-> 0, payload |-> <<>>,
             err |-> "none"]
    /\ dgrams = <<>>
    /\ queue = <<>>
    /\ qclosed = FALSE
    /\ conf \in {[NoConfig EXCEPT !.BufferSize = BufferSize, !.Scheme = sch] :
                    sch \in {"udp", "unix"}}
    /\ env = [datagrams |-> ServiceDatagrams, reads |-> MaxReads,
              errors |-> OpenSocketErrors]
    /\ wk = <<>>
    /\ handled = {}
    /\ parseErrors = 0
    /\ ctx = "live"
    /\ runpc = "none"
    /\ socketFile = (conf.Scheme = "unix")
    /\ closeErrs = <<>>
    /\ upMetric = 0
    /\ mu = 0
    /\ collects = <<>>
    /\ termCh = <<>>
    /\ cancels = <<>>
    /\ codes = <<>>
    /\ sent = 0
    /\ http = "none"

ListenerNext ==
    \/ \E d \in Datagrams : ListenerRead(d)
    \/ ListenerReadFails
    \/ ListenerReadTransient
    \/ ListenerWake
    \/ ListenerPublish
    \/ ChannelReceive
    \/ CallClose

ListenerSpec == ListenerInit /\ [][ListenerNext]_vars

\* After a Close that succeeded the socket is closed and the unix socket path
\* is gone, whatever is called afterwards.
ClosedStaysClosed ==
    (closeErrs # <<>> /\ closeErrs[1] = "nil") => sock = "closed" /\ ~socketFile

\* C23: Close() called again after a first successful Close() leaves the
\* listener as it was and gives the same result as the first call.
C23_CloseIdempotent ==
    /\ ClosedStaysClosed
    /\ \A i \in 2..Len(closeErrs) : closeErrs[1] = "nil" => closeErrs[i] = closeErrs[1]

---------------------------------------------------------------------------
(* C24: the number of workers *)

\* The workers in their loop.
Running == {w \in DOMAIN wk : wk[w] = "loop"}

\* C24: the pool consists of exactly worker_count workers when worker_count
\* is positive and of exactly NumCPU workers otherwise; the running workers
\* are never more than that.
C24_WorkerCount ==
    /\ conf.WorkerCount > 0 => DOMAIN wk = 1..conf.WorkerCount
    /\ conf.WorkerCount <= 0 => DOMAIN wk = 1..NumCPU
    /\ Cardinality(Running) <= Cardinality(DOMAIN wk)
    /\ (runpc = "select" /\ ctx = "live") => Running = DOMAIN wk

\* With worker_count = 0 the NumCPU workers run and have handled a payload.
C24_Witness ==
    /\ conf.WorkerCount = 0
    /\ Cardinality(Running) = NumCPU
    /\ handled # {}

---------------------------------------------------------------------------
(* the nginx stub_status collector under concurrent scrapes *)

\* The scrapes of the registry the model follows, each calling Collect once.
NumScrapes == 2

Scrapes == 1..NumScrapes

\* What http.Get and parseStubStats can come to: a request error, a status
\* other than 200, a body that does not parse, or the statistics.
Responses == {"error", "status", "unparsable", "ok"}

\* The six connection metrics, in the order Collect sends them.
ConnectionMetrics ==
    <<"nginx_connections_active", "nginx_connections_accepted_total",
      "nginx_connections_handled_total", "nginx_connections_reading",
      "nginx_connections_writing", "nginx_connections_waiting">>

\* A Metric on the channel: the gauge upMetric itself, whose value is read
\* when the registry calls Write on it, or a constant metric made by
\* MustNewConstMetric, which carries its value.
UpMetricRef == [name |-> "nginx_up", const |-> FALSE, value |-> 0]
ConstMetric(name) == [name |-> name, const |-> TRUE, value |-> 1]

NoCollect == [pc |-> "idle", resp |-> "none", ch |-> <<>>, gathered |-> <<>>]

\* A faulty variant of CollectLock: the mutex is not taken.
CollectLockSkipped(g) ==
    /\ collects[g].pc = "idle"
    /\ collects' = [collects EXCEPT ![g].pc = "get"]
    /\ UNCHANGED <<upMetric, mu>>
    /\ UNCHANGED <<mvars, pvars, xvars, crashed, evars>>

\* Collect: c.mu.Lock()
CollectLock(g) ==
    /\ collects[g].pc = "idle"
    /\ mu = 0
    /\ mu' = g
    /\ collects' = [collects EXCEPT ![g].pc = "get"]
    /\ UNCHANGED upMetric
    /\ UNCHANGED <<mvars, pvars, xvars, crashed, evars>>

\* Collect: http.Get, the status test and parseStubStats.
CollectGet(g, resp) ==
    /\ collects[g].pc = "get"
    /\ collects' = [collects EXCEPT ![g].pc = "set", ![g].resp = resp]
    /\ UNCHANGED <<upMetric, mu>>
    /\ UNCHANGED <<mvars, pvars, xvars, crashed, evars>>

\* Collect: c.upMetric.Set(0) on a failure, c.upMetric.Set(1) otherwise.
CollectSet(g) ==
    /\ collects[g].pc = "set"
    /\ upMetric' = IF collects[g].resp = "ok" THEN 1 ELSE 0
    /\ collects' = [collects EXCEPT ![g].pc = "send"]
    /\ UNCHANGED mu
    /\ UNCHANGED <<mvars, pvars, xvars, crashed, evars>>

\* Collect: ch <- c.upMetric, and after a successful scrape the six constant
\* metrics.
CollectSend(g) ==
    /\ collects[g].pc = "send"
    /\ collects' =
           [collects EXCEPT
              ![g].pc = "unlock",
              ![g].ch = @ \o <<UpMetricRef>> \o
                        (IF collects[g].resp = "ok"
                         THEN [i \in 1..Len(ConnectionMetrics) |->
                                  ConstMetric(ConnectionMetrics[i])]
                         ELSE <<>>)]
    /\ UNCHANGED <<upMetric, mu>>
    /\ UNCHANGED <<mvars, pvars, xvars, crashed, evars>>

\* Collect returns: the deferred c.mu.Unlock()
CollectUnlock(g) ==
    /\ collects[g].pc = "unlock"
    /\ mu' = IF mu = g THEN 0 ELSE mu
    /\ collects' = [collects EXCEPT ![g].pc = "done"]
    /\ UNCHANGED upMetric
    /\ UNCHANGED <<mvars, pvars, xvars, crashed, evars>>

\* The registry receives the next Metric of scrape g from the channel and
\* calls Write on it: a gauge gives the value it has at that moment.
RegistryWrite(g) ==
    /\ collects[g].ch # <<>>
    /\ collects' =
           [collects EXCEPT
              ![g].ch = Tail(@),
              ![g].gathered =
                  Append(@, [name |-> Head(collects[g].ch).name,
                             value |-> IF Head(collects[g].ch).const
                                       THEN Head(collects[g].ch).value
                                       ELSE upMetric])]
    /\ UNCHANGED <<upMetric, mu>>
    /\ UNCHANGED <<mvars, pvars, xvars, crashed, evars>>

NginxInit ==
    /\ cfg = Base
    /\ m = NoMetric("none")
    /\ vec = [t \in {} |-> Zero]
    /\ labelMaps = <<>>
    /\ labelsPool = {}
    /\ frames = [w \in Workers |-> Idle]
    /\ last = [line |-> <<>>, ret |-> "none", updates |-> <<>>]
    /\ observed = [t \in {} |-> [k |-> 0, sum |-> Zero]]
    /\ ncalls = 0
    /\ crashed = FALSE
    /\ sock = "closed"
    /\ lst = [pc |-> "done", buf |-> <<>>, id |-> 0, payload |-> <<>>,
             err |-> "none"]
    /\ dgrams = <<>>
    /\ queue = <<>>
    /\ qclosed = FALSE
    /\ conf = NoConfig
    /\ env = [datagrams |-> {}, reads |-> 0, errors |-> {}]
    /\ wk = <<>>
    /\ handled = {}
    /\ parseErrors = 0
    /\ ctx = "live"
    /\ runpc = "none"
    /\ socketFile = FALSE
    /\ closeErrs = <<>>
    /\ upMetric = 0
    /\ mu = 0
    /\ collects = [g \in Scrapes |-> NoCollect]
    /\ termCh = <<>>
    /\ cancels = <<>>
    /\ codes = <<>>
    /\ sent = 0
    /\ http = "none"

NginxNext ==
    \/ \E g \in Scrapes : CollectLock(g)
    \/ \E g \in Scrapes, resp \in Responses : CollectGet(g, resp)
    \/ \E g \in Scrapes : CollectSet(g)
    \/ \E g \in Scrapes : CollectSend(g)
    \/ \E g \in Scrapes : CollectUnlock(g)
    \/ \E g \in Scrapes : RegistryWrite(g)

NginxSpec == NginxInit /\ [][NginxNext]_vars

\* The scrapes whose Collect has returned and whose metrics the registry has
\* all gathered.
Gathered == {g \in Scrapes : collects[g].pc = "done" /\ collects[g].ch = <<>>}

\* At most one Collect is between Lock and Unlock.
CollectsSerialized ==
    \A g, h \in Scrapes :
        (collects[g].pc \in {"get", "set", "send", "unlock"}
            /\ collects[h].pc \in {"get", "set", "send", "unlock"}) => g = h

\* What a scrape with response resp is to expose.
Exposition(resp) ==
    IF resp = "ok"
    THEN <<[name |-> "nginx_up", value |-> 1]>> \o
         [i \in 1..Len(ConnectionMetrics) |-> [name |-> ConnectionMetrics[i], value |-> 1]]
    ELSE <<[name |-> "nginx_up", value |-> 0]>>

\* C25: a scrape whose request fails, answers a status other than 200 or does
\* not parse exposes nginx_up = 0 and nothing else; a scrape that succeeds
\* exposes nginx_up = 1 with the six connection metrics; Collect calls are
\* serialized, and no scrape exposes the nginx_up of another.
C25_UpAndConnections ==
    /\ CollectsSerialized
    /\ \A g \in Gathered : collects[g].gathered = Exposition(collects[g].resp)


\* C26: no payload is sent on the hand-off queue after it is closed: when
\* the queue is closed the listener does not hold a received payload that it
\* is about to send.
C26_NoPublishAfterClose == qclosed => lst.pc # "publish"

---------------------------------------------------------------------------
(* C27 - C29: the workers and the payloads *)

\* The ids of the payloads a worker has dequeued and handled.
HandledIds == {h.id : h \in handled}

\* A payload is in the queue once, is not in the queue after it was dequeued,
\* and is handled once.
DequeuedByOneWorker ==
    /\ \A i, j \in 1..Len(queue) : i < j => queue[i].id < queue[j].id
    /\ \A i \in 1..Len(queue) : queue[i].id \notin HandledIds
    /\ \A g, h \in handled : g.id = h.id => g = h

\* Every step that handles a payload is one worker's receive: it takes the
\* payload at the head of the queue off the queue and records all that is
\* done with it.
PayloadHandledOnce ==
    [][handled' # handled =>
          /\ queue # <<>>
          /\ queue' = Tail(queue)
          /\ Head(queue).id \notin HandledIds
          /\ \E h \in handled' : /\ h.id = Head(queue).id
                                 /\ h.msg = Head(queue).msg
                                 /\ handled' = handled \cup {h}]_vars

\* C27: every published payload is dequeued by at most one worker, which
\* applies all the metrics of the preset to it; no payload is processed
\* twice, none has its metrics split across workers.
C27_OneWorkerAllMetrics ==
    /\ DequeuedByOneWorker
    /\ \A h \in handled : Len(h.rets) = Len(conf.Preset)

\* The results of lineHandler are those of Parse for the metrics of the
\* preset in declaration order, up to a metric whose Parse panics: an error
\* that Parse returns does not stop the loop.
ErrorsDoNotStopLineHandler ==
    \A h \in handled :
        /\ Len(h.rets) <= Len(conf.Preset)
        /\ \A i \in 1..Len(h.rets) :
              h.rets[i] = Parse(conf.Preset[i], Split(h.msg, "\t"))
        /\ (\A i \in 1..Len(h.rets) : h.rets[i] \notin Panics)
              => Len(h.rets) = Len(conf.Preset)

\* C28: for each dequeued line Parse is called on every metric of the preset
\* once, in declaration order; a metric whose Parse fails does not keep the
\* metrics declared after it from being parsed for the same line.
C28_EveryMetricParsedInOrder ==
    \A h \in handled :
        h.rets = [i \in 1..Len(conf.Preset) |->
                     Parse(conf.Preset[i], Split(h.msg, "\t"))]

\* A worker that has returned has seen the context cancelled or the queue
\* closed.
WorkersLeaveOnCancelOrClosure ==
    \A w \in DOMAIN wk : wk[w] = "returned" => (ctx # "live" \/ qclosed)

\* C29: no payload stops a worker: the handling of every payload finishes,
\* and a worker leaves its loop only when the context is cancelled or the
\* queue is closed.
C29_WorkerStaysInLoop ==
    /\ \A h \in handled : \A i \in 1..Len(h.rets) : h.rets[i] \notin Panics
    /\ WorkersLeaveOnCancelOrClosure

---------------------------------------------------------------------------
(* C30: the capacity of the hand-off queue *)

\* The queue holds at most its capacity, in the order of the reads.
QueueWithinCapacity ==
    /\ Len(queue) <= conf.BufferSize
    /\ \A i, j \in 1..Len(queue) : i < j => queue[i].id < queue[j].id
    /\ lst.pc = "publish" => \A i \in 1..Len(queue) : queue[i].id < lst.id

\* A step of the listener at its publish step: it reads no datagram, and it
\* keeps its payload until the payload is at the end of the queue; while the
\* queue is full it stays where it is.
PublishStep ==
    lst.pc = "publish" =>
        /\ dgrams' = dgrams
        /\ \/ lst' = lst /\ (queue' = queue \/ queue' = Tail(queue))
           \/ /\ Len(queue) < conf.BufferSize
              /\ lst'.pc = "read"
              /\ Len(queue') = Len(queue) + 1
              /\ queue'[Len(queue')].id = lst.id
              /\ queue'[Len(queue')].msg = lst.payload
              /\ SubSeq(queue', 1, Len(queue)) = queue

\* The queue changes at its two ends only: a payload leaves at the head, or
\* the listener's payload is added at the end.
QueueStep ==
    queue' # queue =>
        \/ queue # <<>> /\ queue' = Tail(queue)
        \/ /\ lst.pc = "publish"
           /\ Len(queue') = Len(queue) + 1
           /\ SubSeq(queue', 1, Len(queue)) = queue

\* C30: the queue never holds more payloads than its capacity; while it is
\* full the listener stays in its publish step, without dropping the payload
\* and without reading another datagram, until a worker dequeues; payloads
\* leave the queue in the order they were published.
C30_BoundedQueue ==
    /\ [](QueueWithinCapacity)
    /\ [][PublishStep /\ QueueStep]_vars

\* The listener is blocked at a full queue after a worker has dequeued a
\* payload.
C30_Witness ==
    /\ lst.pc = "publish"
    /\ Len(queue) = conf.BufferSize
    /\ ~qclosed
    /\ handled # {}

---------------------------------------------------------------------------
(* C31: Collector.Close and the return of the workers *)

AllWorkersReturned == \A w \in DOMAIN wk : wk[w] = "returned"

\* Close() (wg.Wait) has returned only when every worker has returned.
CloseWaitsForWorkers == CollectorCloseReturned => AllWorkersReturned

\* In a process that no panic ends, the workers return once the context is
\* cancelled or the queue is closed.
WorkersReturnUnlessPanic ==
    (ctx # "live" \/ qclosed) ~> (AllWorkersReturned \/ crashed)

\* C31: Collector.Close() returns only after every worker the collector
\* started has returned; once the context is cancelled or the queue is
\* closed every worker eventually returns, so that Close() terminates.
C31_CloseTerminates ==
    /\ [](CloseWaitsForWorkers)
    /\ (ctx # "live" \/ qclosed) ~> AllWorkersReturned

---------------------------------------------------------------------------
(* C32: the read errors of Start *)

\* The permanent errors: network errors that are neither temporary nor a
\* timeout.
PermanentErrors == {"closed", "permanent"}

\* Start returns from its read only, and only on a permanent error.
ReturnsOnPermanentError ==
    (lst'.pc = "done" /\ lst.pc # "done")
        => (lst.pc = "read" /\ lst'.err \in PermanentErrors)

\* A read that fails with any other error is followed by the sleep; nothing
\* is read or published for it.
SleepsOnOtherError ==
    (lst.pc = "read" /\ lst'.err \notin ({"none"} \cup PermanentErrors))
        => /\ lst'.pc = "sleep"
           /\ dgrams' = dgrams
           /\ queue' = queue
           /\ lst'.payload = lst.payload

\* After the sleep the loop is at its read again, with nothing published.
RetriesAfterSleep ==
    lst.pc = "sleep"
        => /\ Len(queue') <= Len(queue)
           /\ dgrams' = dgrams
           /\ lst' # lst => lst'.pc = "read"

\* C32: Start returns only when a read fails with a permanent error, a
\* network error that is neither temporary nor a timeout; on every other
\* read error it sleeps, publishes nothing for that read and reads again.
C32_ReturnOnPermanentErrorOnly ==
    [][ReturnsOnPermanentError /\ SleepsOnOtherError /\ RetriesAfterSleep]_vars

\* Start has returned on a permanent error of an open socket after it has
\* read a datagram.
C32_Witness ==
    /\ lst.pc = "done"
    /\ lst.err = "permanent"
    /\ sock = "open"
    /\ dgrams # <<>>

---------------------------------------------------------------------------
(* C33: the atomicity of Parse *)

\* Worker w is in a Parse call that has already applied updates to the
\* vector and has not returned: what it has applied is what every other
\* Parse call and every scrape finds in the vector.
AppliedInPart(w) == frames[w].pc = "walk" /\ frames[w].updates # <<>>

\* The updates the call of worker w has applied after this step.
AppliedAfter(w) ==
    IF frames'[w].pc = "walk" THEN frames'[w].updates ELSE last'.updates

\* C33: a Parse invocation is atomic with respect to the other Parse
\* invocations of the metric and to scrapes: a call whose updates are in the
\* vector for others to see applies no further update, also when its line
\* fans out over several upstreams.
C33_ParseIsAtomic ==
    [][\A w \in Workers :
          (AppliedInPart(w) /\ frames'[w] # frames[w])
              => AppliedAfter(w) = frames[w].updates]_vars

---------------------------------------------------------------------------
(* C34: the pooled label maps *)

\* The workers that are inside a Parse call, holding a label map.
Walking == {w \in Workers : frames[w].pc = "walk"}

\* The names of the declared labels.
LabelNames == {cfg.Labels[i].Name : i \in 1..Len(cfg.Labels)}

\* The addresses the call of worker w has paired with the value elements it
\* has gone through.
PairedSoFar(w) ==
    {PairedAddress(frames[w].line, k) : k \in 0..(frames[w].valueIndex - 1)}

\* The map held by worker w has the values of the labels of w's own line and,
\* under "upstream", an address of that line, and nothing else.
OwnLabelsOnly(w) ==
    LET labels == labelMaps[frames[w].labels]
    IN  /\ DOMAIN labels \subseteq LabelNames \cup {"upstream"}
        /\ \A i \in 1..Len(cfg.Labels) :
              (\A j \in (i + 1)..Len(cfg.Labels) :
                    cfg.Labels[j].Name # cfg.Labels[i].Name)
                  => labels[cfg.Labels[i].Name] = LabelValue(frames[w].line, i)
        /\ "upstream" \in DOMAIN labels
              => cfg.Upstream.Label /\ labels["upstream"] \in PairedSoFar(w)

\* C34: a label map is empty when a Parse call takes it from the pool, and
\* the call that holds it is the only one to use it until it has cleared and
\* returned it: no call sees a label value that another call has written,
\* whether the calls succeed or fail, whatever the number of workers.
C34_LabelMapsAreNotShared ==
    /\ \A id \in labelsPool : labelMaps[id] = EmptyLabels
    /\ \A w \in Walking : frames[w].labels \in (1..Len(labelMaps)) \ labelsPool
    /\ \A w, v \in Walking : w # v => frames[w].labels # frames[v].labels
    /\ \A w \in Walking : OwnLabelsOnly(w)

\* Two workers are inside Parse calls of different lines at once, each with
\* its labels and an upstream address in its map.
C34_Witness ==
    /\ Cardinality(Walking) >= 2
    /\ \A w \in Walking : "upstream" \in DOMAIN labelMaps[frames[w].labels]
    /\ \E w, v \in Walking : frames[w].line # frames[v].line

---------------------------------------------------------------------------
(* the sums of the registry in float64 arithmetic *)

\* The bits of the significand of a float64, scaled down from 53.
MantissaBits == 3

RECURSIVE Pow2(_)
Pow2(k) == IF k = 0 THEN 1 ELSE 2 * Pow2(k - 1)

\* The number of low bits of q that do not fit the significand.
RECURSIVE ExcessBits(_, _)
ExcessBits(q, t) ==
    IF q \div Pow2(t) < Pow2(MantissaBits) THEN t ELSE ExcessBits(q, t + 1)

\* The float64 nearest to the fraction x, ties to the even significand.  The
\* fractions of the model have a power of two as denominator.
RoundFloat(x) ==
    IF x.k # "fin" THEN x
    ELSE LET q == Abs(x.n)
             t == ExcessBits(q, 0)
             mant == q \div Pow2(t)
             rest == q % Pow2(t)
             up == t > 0 /\ (2 * rest > Pow2(t) \/ (2 * rest = Pow2(t) /\ mant % 2 = 1))
             r == (IF up THEN mant + 1 ELSE mant) * Pow2(t)
         IN  Fin(IF x.n < 0 THEN 0 - r ELSE r, x.d)

\* x + y of Go on two float64.
Float64Add(x, y) == RoundFloat(FAdd(x, y))

\* prometheus' Counter.Add: a value that is a whole number is added to the
\* integer part of the sample, any other value to its float64 part.
IsUint(x) == x.k = "fin" /\ x.d = 1 /\ x.n >= 0

NewCounter == [valInt |-> 0, valBits |-> Zero]

counterAdd(s, x) ==
    IF IsUint(x) THEN [s EXCEPT !.valInt = @ + x.n]
    ELSE [s EXCEPT !.valBits = Float64Add(@, x)]

\* The value a scrape reads from a counter.
counterGet(s) == Float64Add(s.valBits, Fin(s.valInt, 1))

\* A faulty variant of histogramObserve: the observation is not counted.
histogramObserveUncounted(bounds, h, x) ==
    [h EXCEPT !.sum = Float64Add(@, x)]

\* prometheus' Histogram.Observe: the bucket and the count are incremented,
\* the value is added to the float64 sum.
histogramObserve(bounds, h, x) ==
    [count |-> h.count + 1,
     sum |-> Float64Add(h.sum, x),
     counts |-> [i \in 1..Len(h.counts) |->
                    IF i = BucketIndex(bounds, x) THEN h.counts[i] + 1
                    ELSE h.counts[i]]]

\* setMetricValue on the vector, in float64 arithmetic: With(labels) creates
\* the sample on its first use.
AddFloat64(c, mt, v0, u) ==
    LET old == IF u.labels \in DOMAIN v0 THEN v0[u.labels]
               ELSE IF mt.kind = "CounterVec" THEN NewCounter
               ELSE NewHistogram(Buckets(c))
        new == IF mt.kind = "CounterVec" THEN counterAdd(old, u.v)
               ELSE histogramObserve(Buckets(c), old, u.v)
    IN  [t \in (DOMAIN v0) \cup {u.labels} |-> IF t = u.labels THEN new ELSE v0[t]]

RECURSIVE ApplyFloat64(_, _, _, _)
ApplyFloat64(c, mt, v0, upd) ==
    IF upd = <<>> THEN v0
    ELSE ApplyFloat64(c, mt, AddFloat64(c, mt, v0, Head(upd)), Tail(upd))

\* The payloads of the model: one label value, and values of which some are
\* whole numbers and some are not.
SumPayloads ==
    {<<"a", "\t", "1", ".", "7", "5">>,
     <<"a", "\t", "0", ".", "5">>,
     <<"a", "\t", "0", ".", "2", "5">>,
     <<"a", "\t", "1">>}

\* The number of payloads published.
NumPayloads == 3

\* The updates Parse makes for a payload.
UpdatesOf(c, mt, msg) == ParseEntry(c, mt, Split(msg, "\t"), EmptyLabels).res.upd

SumInit ==
    /\ cfg \in {Base, [Base EXCEPT !.Type = "histogram"]}
    /\ m = New(cfg)
    /\ vec = [t \in {} |-> Zero]
    /\ labelMaps = <<>>
    /\ labelsPool = {}
    /\ frames = [w \in Workers |-> Idle]
    /\ last = [line |-> <<>>, ret |-> "none", updates |-> <<>>]
    /\ observed = [t \in {} |-> [k |-> 0, sum |-> Zero]]
    /\ ncalls = 0
    /\ crashed = FALSE
    /\ sock = "closed"
    /\ lst = [pc |-> "done", buf |-> <<>>, id |-> 0, payload |-> <<>>,
             err |-> "none"]
    /\ dgrams \in [1..NumPayloads -> SumPayloads]
    /\ queue = dgrams
    /\ qclosed = FALSE
    /\ conf = NoConfig
    /\ env = [datagrams |-> {}, reads |-> 0, errors |-> {}]
    /\ wk = [w \in Workers |-> "loop"]
    /\ handled = {}
    /\ parseErrors = 0
    /\ ctx = "live"
    /\ runpc = "none"
    /\ socketFile = FALSE
    /\ closeErrs = <<>>
    /\ upMetric = 0
    /\ mu = 0
    /\ collects = <<>>
    /\ termCh = <<>>
    /\ cancels = <<>>
    /\ codes = <<>>
    /\ sent = 0
    /\ http = "none"

\* lineHandlerWorker: worker w receives the next payload and splits it.
SumReceive(w) ==
    /\ frames[w].pc = "idle"
    /\ queue # <<>>
    /\ frames' = [frames EXCEPT ![w] =
                     [Idle EXCEPT !.pc = "parse", !.line = Split(Head(queue), "\t")]]
    /\ queue' = Tail(queue)
    /\ UNCHANGED <<cfg, m, vec, labelMaps, labelsPool, last, observed, ncalls, crashed>>
    /\ UNCHANGED <<sock, lst, dgrams, qclosed, wk, handled, parseErrors, ctx, runpc>>
    /\ UNCHANGED <<xvars, nvars, evars>>

\* Worker w's Parse of its line updates the vector and returns.
SumParse(w) ==
    /\ frames[w].pc = "parse"
    /\ vec' = ApplyFloat64(cfg, m, vec,
                           ParseEntry(cfg, m, frames[w].line, EmptyLabels).res.upd)
    /\ frames' = [frames EXCEPT ![w] = Idle]
    /\ ncalls' = ncalls + 1
    /\ UNCHANGED <<cfg, m, labelMaps, labelsPool, last, observed, crashed>>
    /\ UNCHANGED <<pvars, xvars, nvars, evars>>

SumNext ==
    \/ \E w \in Workers : SumReceive(w)
    \/ \E w \in Workers : SumParse(w)

SumSpec == SumInit /\ [][SumNext]_vars


\* Every published payload has been processed.
Completed == queue = <<>> /\ \A w \in Workers : frames[w].pc = "idle"

\* What a scrape reads from the vector.
Scraped(mt, v0) ==
    [t \in DOMAIN v0 |-> IF mt.kind = "CounterVec" THEN counterGet(v0[t]) ELSE v0[t]]

\* The vector after the payloads have been processed one after the other, in
\* the order of their publication.
RECURSIVE Sequential(_, _, _, _)
Sequential(c, mt, v0, msgs) ==
    IF msgs = <<>> THEN v0
    ELSE Sequential(c, mt, ApplyFloat64(c, mt, v0, UpdatesOf(c, mt, Head(msgs))),
                    Tail(msgs))

\* C35 (as claimed): for a counter and for a histogram, the registry state
\* after all the published payloads have been processed is the same for
\* every assignment of the payloads to the workers and every interleaving of
\* their updates: it is the state that processing them one by one gives.
C35_UpdatesCommute ==
    Completed =>
        Scraped(m, vec) = Scraped(m, Sequential(cfg, m, [t \in {} |-> Zero], dgrams))

\* The value of payload number i.
ValueOf(i) == UpdatesOf(cfg, m, dgrams[i])[1].v

\* The exact sum of the values of the payloads whose numbers are in the set.
RECURSIVE ExactSum(_)
ExactSum(is) ==
    IF is = {} THEN Zero
    ELSE LET i == CHOOSE j \in is : TRUE
         IN  FAdd(ValueOf(i), ExactSum(is \ {i}))

\* The payloads whose values go to a float64 sum: for a counter those that
\* are no whole numbers, for a histogram all.
FloatPath ==
    {i \in 1..Len(dgrams) : m.kind # "CounterVec" \/ ~IsUint(ValueOf(i))}

\* No sum that any order of the updates forms needs rounding.
SumsAreExact ==
    /\ \A is \in SUBSET FloatPath : RoundFloat(ExactSum(is)) = ExactSum(is)
    /\ RoundFloat(ExactSum(1..Len(dgrams))) = ExactSum(1..Len(dgrams))

\* The sample of the one label tuple of the payloads.
TheSample == vec[[host |-> <<"a">>]]

\* C35 (amended): after all the published payloads have been processed, in
\* whatever interleaving, the counts of a histogram and the whole-number part
\* of a counter are those of the payloads, and the sum that is scraped is the
\* exact sum of the payloads' values whenever no sum of them needs rounding.
C35_UpdatesCommuteExactly ==
    Completed =>
        /\ DOMAIN vec = {[host |-> <<"a">>]}
        /\ IF m.kind = "CounterVec"
           THEN /\ Fin(TheSample.valInt, 1) = ExactSum((1..Len(dgrams)) \ FloatPath)
                /\ SumsAreExact => counterGet(TheSample) = ExactSum(1..Len(dgrams))
           ELSE /\ TheSample.count = Len(dgrams)
                /\ \A b \in 1..Len(TheSample.counts) :
                      TheSample.counts[b] =
                          Cardinality({i \in 1..Len(dgrams) :
                              BucketIndex(Buckets(cfg), ValueOf(i)) = b})
                /\ SumsAreExact => TheSample.sum = ExactSum(1..Len(dgrams))

\* Three payloads of different values, whole and not, have been processed
\* and none of their sums needed rounding.
C35_Witness ==
    /\ Completed
    /\ SumsAreExact
    /\ Cardinality({dgrams[i] : i \in 1..Len(dgrams)}) = NumPayloads
    /\ Cardinality(FloatPath) >= 2


---------------------------------------------------------------------------
(* The comma walk of Parse on lines with several value elements *)

\* Log lines for the comma walk: a sentinel element, elements paired with
\* addresses that may be excluded, an element that does not parse followed by
\* one that does, empty elements, and a value that ends with a comma.
WalkLines ==
    {<<<<"a">>, <<"1">>, <<"u">>>>,
     <<<<"a">>, <<"1", ",", "0", ".", "5">>, <<"u", ",", "v">>>>,
     <<<<"a">>, <<"2", ",", " ", "-", ",", "1">>, <<"u", ",", " ", "v">>>>,
     <<<<"b">>, <<"3", ",", ",", " ">>, <<"v", ",", "u", ",", "w">>>>,
     <<<<"a">>, <<"x", ",", "1">>, <<"u", ",", "v">>>>,
     <<<<"a">>, <<"1", ",">>, <<"u">>>>}

WalkNext ==
    \/ NewMetric
    \/ \E w \in Workers, line \in WalkLines : ParseCall(w, line)
    \/ \E w \in Workers : WalkStep(w)

WalkSpec == Init /\ [][WalkNext]_vars

\* The value field a walking worker was called with.
WalkedField(w) == ValueField(frames[w].line)

\* Before its iteration number valueIndex + 1 the walk of a worker stands
\* right behind the comma number valueIndex of the value field: the elements
\* before it have been passed, one per iteration and in order, and the
\* element it takes next is the next one of the field, trimmed.
WalkPosition ==
    \A w \in Walking :
        LET f == frames[w]
            field == WalkedField(w)
        IN  /\ f.valueIndex < NumElems(field)
            /\ f.value = SubSeq(field, CommaAt(field, f.valueIndex) + 1, Len(field))
            /\ extractNextValue(f.value).element = Trimmed(Elem(field, f.valueIndex + 1))

\* Every iteration either moves the walk on by one element or ends the call,
\* whatever the element is.
WalkProgress ==
    \A w \in Walking :
        frames'[w] # frames[w] =>
            \/ frames'[w].pc = "idle"
            \/ /\ frames'[w].pc = "walk"
               /\ frames'[w].line = frames[w].line
               /\ frames'[w].valueIndex = frames[w].valueIndex + 1

\* C36 (as claimed): Parse terminates, and its comma walk passes every
\* comma-separated element of the value field exactly once, from left to
\* right, one per iteration whatever the element is, and returns after the
\* last element.
C36_WalkVisitsEveryElement ==
    /\ [](WalkPosition)
    /\ [][/\ WalkProgress
          /\ \A w \in Walking :
                frames'[w].pc = "idle" =>
                    frames[w].valueIndex + 1 = NumElems(WalkedField(w))]_vars

\* The walk of worker w ends with this step for a reason the code has: the
\* element failed, or no text is left behind it, which is so behind the last
\* element and behind the comma a value field ends with.
WalkStopsAt(w) ==
    LET k == frames[w].valueIndex + 1
        field == WalkedField(w)
        n == NumElems(field)
    IN  \/ last'.ret # "nil"
        \/ k = n
        \/ k = n - 1 /\ Elem(field, n) = <<>>

\* C36 (amended): Parse terminates: its comma walk passes the elements of the
\* value field from left to right, each at most once and one per iteration
\* whatever the element is, so that it makes no more iterations than the
\* field has elements; it returns at the first element that fails, and
\* otherwise after the last element, an empty element behind a final comma
\* not being visited.
C36_WalkTerminates ==
    /\ [](WalkPosition)
    /\ [][/\ WalkProgress
          /\ \A w \in Walking : frames'[w].pc = "idle" => WalkStopsAt(w)]_vars

\* A walk has passed an element paired with an excluded address and a
\* sentinel element without a call on the vector, and stands before the
\* third element.
C36_Witness ==
    \E w \in Walking :
        /\ frames[w].line = <<<<"a">>, <<"2", ",", " ", "-", ",", "1">>, <<"u", ",", " ", "v">>>>
        /\ \E i \in 1..Len(cfg.Upstream.Excludes) : cfg.Upstream.Excludes[i] = <<"u">>
        /\ frames[w].valueIndex = 2
        /\ frames[w].updates = <<>>


---------------------------------------------------------------------------
(* C37: the end of a published payload *)

\* The payloads published so far: held by the listener for its send, queued,
\* or handled by a worker.
PublishedPayloads ==
    {queue[k].msg : k \in 1..Len(queue)} \cup {h.msg : h \in handled}
        \cup (IF lst.pc = "publish" THEN {lst.payload} ELSE {})

\* C37: a payload the listener publishes never ends with a byte below 0x20
\* (NUL, newline, tab): the trailing control bytes of the datagram are cut
\* off before the payload is taken, so the last field of the worker's tab
\* split of a payload is empty only when the payload itself is empty, never
\* because of a tab at its end.
C37_NoTrailingControlByte ==
    \A p \in PublishedPayloads :
        LET fields == Split(p, "\t")
        IN  /\ p # <<>> => ~IsControl(p[Len(p)])
            /\ fields[Len(fields)] = <<>> => p = <<>>

\* A worker has handled the payload of a datagram whose part read ends with
\* a tab, and a payload of a datagram that ends with a newline.
C37_Witness ==
    /\ \E h \in handled :
          /\ FirstBytes(dgrams[h.id])[Len(FirstBytes(dgrams[h.id]))] = "\t"
          /\ h.msg = <<"a", "\t", "1", "\t", "u">>
    /\ \E h \in handled :
          /\ dgrams[h.id][Len(dgrams[h.id])] = "\n"
          /\ h.msg = <<"a", "\t", "1">>


---------------------------------------------------------------------------
(* execute: the runs of the service, the signals and the return codes *)

\* The signals main asks to be notified of on termCh.
NotifiedSignals == {"SIGINT", "SIGHUP", "SIGTERM", "SIGUSR1"}

\* The capacity of termCh.
TermChCap == 1

\* The signals sent to the process that the model follows.
MaxSignals == 3

\* The first run of execute in its service loop: the socket is open, the
\* workers and the HTTP server are started, no datagram is sent.
ExecuteInit ==
    /\ cfg = Base
    /\ m = NoMetric("none")
    /\ vec = [t \in {} |-> Zero]
    /\ labelMaps = <<>>
    /\ labelsPool = {}
    /\ frames = [w \in Workers |-> Idle]
    /\ last = [line |-> <<>>, ret |-> "none", updates |-> <<>>]
    /\ observed = [t \in {} |-> [k |-> 0, sum |-> Zero]]
    /\ ncalls = 0
    /\ crashed = FALSE
    /\ sock = "open"
    /\ lst = [pc |-> "read", buf |-> NewBuffer, id |-> 0, payload |-> <<>>,
             err |-> "none"]
    /\ dgrams = <<>>
    /\ queue = <<>>
    /\ qclosed = FALSE
    /\ conf \in ServiceConfigs
    /\ env = [datagrams |-> {}, reads |-> 0, errors |-> {}]
    /\ wk = [w \in 1..lineHandlerWorkers(conf.WorkerCount) |-> "loop"]
    /\ handled = {}
    /\ parseErrors = 0
    /\ ctx = "live"
    /\ runpc = "select"
    /\ socketFile = FALSE
    /\ closeErrs = <<>>
    /\ upMetric = 0
    /\ mu = 0
    /\ collects = <<>>
    /\ termCh = <<>>
    /\ cancels = <<>>
    /\ codes = <<>>
    /\ sent = 0
    /\ http = "serving"

\* The process is sent a signal: it is put on termCh when there is room and
\* dropped otherwise.
Notify(sig) ==
    /\ ~crashed
    /\ runpc # "exited"
    /\ sent < MaxSignals
    /\ sent' = sent + 1
    /\ termCh' = IF Len(termCh) < TermChCap THEN Append(termCh, sig) ELSE termCh
    /\ UNCHANGED <<cancels, codes, http>>
    /\ UNCHANGED <<mvars, pvars, xvars, nvars, crashed>>

\* run: the select takes termCh, and cancel is called with the cause of the
\* signal, whether the context is cancelled already or not.
RunTermCh ==
    /\ ~crashed
    /\ runpc = "select"
    /\ termCh # <<>>
    /\ termCh' = Tail(termCh)
    /\ ctx' = cancel(ctx, signalCause(Head(termCh)))
    /\ cancels' = Append(cancels, signalCause(Head(termCh)))
    /\ UNCHANGED <<sock, lst, dgrams, queue, qclosed, wk, handled, parseErrors, runpc>>
    /\ UNCHANGED <<mvars, xvars, nvars, crashed>>
    /\ UNCHANGED <<codes, sent, http>>

\* The goroutine of the HTTP server: ListenAndServe returns an error other
\* than ErrServerClosed and the goroutine cancels with it.
HttpFails ==
    /\ ~crashed
    /\ runpc \in {"select", "collectorClose", "closeBuffer", "serverShutdown"}
    /\ http = "serving"
    /\ http' = "failed"
    /\ ctx' = cancel(ctx, "http error")
    /\ cancels' = Append(cancels, "http error")
    /\ UNCHANGED <<sock, lst, dgrams, queue, qclosed, wk, handled, parseErrors, runpc>>
    /\ UNCHANGED <<mvars, xvars, nvars, crashed>>
    /\ UNCHANGED <<termCh, codes, sent>>

\* execute: run has returned ReturnCodeReload and is called again; it
\* reaches its service loop with a new context, socket, queue, workers and
\* HTTP server.
ExecuteRunAgain ==
    /\ ~crashed
    /\ runpc = "returned"
    /\ codes[Len(codes)] = ReturnCodeReload
    /\ runpc' = "select"
    /\ ctx' = "live"
    /\ cancels' = <<>>
    /\ sock' = "open"
    /\ socketFile' = (conf.Scheme = "unix")
    /\ queue' = <<>>
    /\ qclosed' = FALSE
    /\ wk' = [w \in 1..lineHandlerWorkers(conf.WorkerCount) |-> "loop"]
    /\ http' = "serving"
    /\ UNCHANGED <<lst, dgrams, handled, parseErrors>>
    /\ UNCHANGED <<mvars, conf, env, closeErrs, nvars, crashed>>
    /\ UNCHANGED <<termCh, codes, sent>>

\* execute: run has returned ReturnCodeReload and is called again; it returns
\* rc before it reaches its service loop (the configuration is no longer
\* valid or asks for verification only, the preset is missing, the listener
\* or the collector cannot be created).
ExecuteRunStops(rc) ==
    /\ ~crashed
    /\ runpc = "returned"
    /\ codes[Len(codes)] = ReturnCodeReload
    /\ codes' = Append(codes, rc)
    /\ cancels' = <<>>
    /\ UNCHANGED <<termCh, sent, http>>
    /\ UNCHANGED <<mvars, pvars, xvars, nvars, crashed>>

\* execute: run has returned a code other than ReturnCodeReload, and execute
\* returns it.
ExecuteReturn ==
    /\ ~crashed
    /\ runpc = "returned"
    /\ codes[Len(codes)] # ReturnCodeReload
    /\ runpc' = "exited"
    /\ UNCHANGED <<sock, lst, dgrams, queue, qclosed, wk, handled, parseErrors, ctx>>
    /\ UNCHANGED <<mvars, xvars, nvars, evars, crashed>>

ExecuteNext ==
    \/ \E sig \in NotifiedSignals : Notify(sig)
    \/ RunTermCh
    \/ HttpFails
    \/ \E w \in DOMAIN wk : WorkerReturn(w)
    \/ RunCloseSyslog
    \/ RunCollectorClose
    \/ RunCloseBuffer
    \/ RunReturn
    \/ ExecuteRunAgain
    \/ \E rc \in {ReturnCodeOK, ReturnCodeError} : ExecuteRunStops(rc)
    \/ ExecuteReturn

ExecuteSpec == ExecuteInit /\ [][ExecuteNext]_vars


\* The code that the cause of the first cancel call of the run stands for.
CodeOfFirstCancel ==
    IF cancels[1] = "reload" THEN ReturnCodeReload
    ELSE IF cancels[1] = "nil" THEN ReturnCodeOK
    ELSE ReturnCodeError

\* run returns from its shutdown branch with this step.
RunReturns == runpc = "serverShutdown" /\ runpc' = "returned"

\* The code run returns is that of its first cancel call, whatever calls
\* followed it.
CodeByFirstCancel ==
    RunReturns =>
        /\ cancels # <<>>
        /\ codes' = Append(codes, CodeOfFirstCancel)

\* execute calls run again after ReturnCodeReload, and returns after any
\* other code.
ExecuteLoops ==
    (runpc = "returned" /\ runpc' # "returned") =>
        IF codes[Len(codes)] = ReturnCodeReload
        THEN runpc' = "select" /\ codes' = codes
        ELSE runpc' = "exited" /\ codes' = codes

\* Every run before the last one has returned ReturnCodeReload, and execute
\* has returned only with another code, that of its last run.
ReloadsBeforeLast ==
    /\ \A i \in 1..(Len(codes) - 1) : codes[i] = ReturnCodeReload
    /\ runpc = "exited" => codes # <<>> /\ codes[Len(codes)] # ReturnCodeReload

\* C38: the code run returns is decided by the cause of its first cancel
\* alone: ReturnCodeReload exactly when that was a SIGHUP, ReturnCodeOK for
\* any other signal, ReturnCodeError for a failure of the HTTP server, and
\* signals received later change nothing; execute calls run again as long as
\* run returns ReturnCodeReload and returns the first other code.
C38_FirstCauseDecides ==
    /\ [](ReloadsBeforeLast)
    /\ [][CodeByFirstCancel /\ ExecuteLoops]_vars

\* execute has returned ReturnCodeOK after a reload: its second run was
\* cancelled by a signal other than SIGHUP and received a SIGHUP after that.
C38_Witness ==
    /\ runpc = "exited"
    /\ codes = <<ReturnCodeReload, ReturnCodeOK>>
    /\ cancels = <<"nil", "reload">>

=============================================================================
